---------------------------- MODULE Spec2Model ----------------------------
(***************************************************************************)
(* A model of mcp-servarr: the Sonarr/Radarr facade (src/src/server.py)    *)
(* and its HTTP wrapper (src/src/http_server.py).                          *)
(*                                                                         *)
(* Conventions.  A Python str is a sequence of one-character strings where *)
(* the code looks inside it (URLs, titles, queries) and a sequence of      *)
(* string pieces where it only builds it (rendered text, messages).  A     *)
(* Python dict is a function whose DOMAIN is the set of keys present.      *)
(* An operation that may raise returns [ok |-> TRUE, val |-> v] or         *)
(* [ok |-> FALSE, err |-> str(e)], together with the outbound requests it  *)
(* issued.                                                                 *)
(***************************************************************************)
EXTENDS Integers, Sequences, FiniteSets, TLC

VARIABLES
    env,            \* os.environ: the four settings a backend is configured by
    mode,           \* "stdio" (server.main) or "http" (http_server.app)
    phase,          \* "new" before startup, "up" while serving, "down" after
    mcp,            \* main's local `mcp`: <<>> before it is constructed
    mcp_instance,   \* http_server's global: <<>> for None
    closes,         \* per backend, how many times its client was closed
    last,           \* the last request served and what it produced
    input,          \* the fixture of the single-operation specifications
    tasks           \* the requests in flight: where each handler stands

vars == <<env, mode, phase, mcp, mcp_instance, closes, last, input,
         tasks>>

-----------------------------------------------------------------------------
(* Bounds of the model                                                     *)

MaxUrlLen == 2
MaxRecentLen == 3
MaxSearchLen == 12
MaxTasks == 2

-----------------------------------------------------------------------------
(* Generic helpers                                                         *)

None == "None"

Backends == {"sonarr", "radarr"}

SeqsUpTo(S, n) == UNION {[1..k -> S] : k \in 0..n}

RECURSIVE Flatten(_)
Flatten(ss) == IF ss = <<>> THEN <<>> ELSE Head(ss) \o Flatten(Tail(ss))

Str(n) == ToString(n)

Ok(v, out) == [ok |-> TRUE, val |-> v, out |-> out]
Raise(e, out) == [ok |-> FALSE, err |-> e, out |-> out]

KeyError(k) == <<"'", k, "'">>

-----------------------------------------------------------------------------
(* Config                                                                  *)

RECURSIVE rstrip(_)
rstrip(s) ==
    IF s # <<>> /\ s[Len(s)] = "/" THEN rstrip(SubSeq(s, 1, Len(s) - 1)) ELSE s

from_env(e) ==
    [sonarr_url |-> rstrip(e.SONARR_URL),
     sonarr_api_key |-> e.SONARR_API_KEY,
     radarr_url |-> rstrip(e.RADARR_URL),
     radarr_api_key |-> e.RADARR_API_KEY]

(* a variant that calls a backend configured when either setting is there *)
validate_service_either(config, service) ==
    IF service = "sonarr"
      THEN config.sonarr_url # <<>> \/ config.sonarr_api_key # <<>>
      ELSE IF service = "radarr"
        THEN config.radarr_url # <<>> \/ config.radarr_api_key # <<>>
        ELSE FALSE

validate_service(config, service) ==
    IF service = "sonarr"
      THEN config.sonarr_url # <<>> /\ config.sonarr_api_key # <<>>
      ELSE IF service = "radarr"
        THEN config.radarr_url # <<>> /\ config.radarr_api_key # <<>>
        ELSE FALSE

APIClient(base_url, api_key) == [base_url |-> base_url, api_key |-> api_key]

SonarrRadarrMCP(e) ==
    LET config == from_env(e) IN
    [config |-> config,
     sonarr_client |->
        IF validate_service(config, "sonarr")
          THEN <<APIClient(config.sonarr_url, config.sonarr_api_key)>>
          ELSE <<>>,
     radarr_client |->
        IF validate_service(config, "radarr")
          THEN <<APIClient(config.radarr_url, config.radarr_api_key)>>
          ELSE <<>>]

-----------------------------------------------------------------------------
(* APIClient: one attempt per call.  `resp` is what the network did.       *)

OkResp(json) == [kind |-> "ok", json |-> json]
StatusResp(code) == [kind |-> "status", code |-> code]
ConnectResp == [kind |-> "connect"]
BadJsonResp == [kind |-> "badjson"]

ConnectErrorMsg == <<"All connection attempts failed">>
JSONDecodeErrorMsg == <<"Expecting value: line 1 column 1 (char 0)">>

Request(b, client, method, endpoint, payload) ==
    [to |-> b,
     method |-> method,
     url |-> client.base_url \o <<"/api/v3/", endpoint>>,
     api_key |-> client.api_key,
     endpoint |-> endpoint,
     payload |-> payload]

HttpResult(req, resp) ==
    IF resp.kind = "ok" THEN Ok(resp.json, <<req>>)
    ELSE IF resp.kind = "status"
      THEN Raise(<<"API request failed: ", Str(resp.code)>>, <<req>>)
    ELSE IF resp.kind = "connect" THEN Raise(ConnectErrorMsg, <<req>>)
    ELSE Raise(JSONDecodeErrorMsg, <<req>>)

(* a variant that sends a failed GET a second time *)
ApiGet_retrying(b, client, endpoint, params, resp) ==
    LET req == Request(b, client, "GET", endpoint, params)
        r == HttpResult(req, resp)
    IN IF r.ok THEN r ELSE [r EXCEPT !.out = <<req, req>>]

ApiGet(b, client, endpoint, params, resp) ==
    HttpResult(Request(b, client, "GET", endpoint, params), resp)

ApiPost(b, client, endpoint, json_data, resp) ==
    HttpResult(Request(b, client, "POST", endpoint, json_data), resp)

-----------------------------------------------------------------------------
(* Python values of the loosely typed argument bag                         *)

IntV(n) == [t |-> "int", n |-> n]
StrV(s) == [t |-> "str", s |-> s]

PyStr(v) == IF v.t = "int" THEN <<Str(v.n)>> ELSE v.s

(* dict.get(key, default) and dict[key] on a dict d *)
Has(d, k) == k \in DOMAIN d
Get(d, k, default) == IF Has(d, k) THEN d[k] ELSE default

-----------------------------------------------------------------------------
(* Dates.  A naive datetime is [d, h]: day d of the month, hour h.  An     *)
(* `added` string is "2024-01-<dd><sep><hh>:00:00" with an optional        *)
(* trailing "Z"; `valid` is FALSE for a string fromisoformat rejects.      *)

HoursPerDay == 24

Pad2(n) == IF n < 10 THEN "0" \o Str(n) ELSE Str(n)

AddedText(a) ==
    IF ~a.valid THEN <<"not-a-date">>
    ELSE <<"2024-01-", Pad2(a.d), a.sep, Pad2(a.h), ":00:00">>
         \o (IF a.z THEN <<"Z">> ELSE <<>>)

(* code points of the characters that can differ between two such strings *)
CharCode(c) == IF c = " " THEN 32 ELSE IF c = "T" THEN 84 ELSE 90

AddedKey(a) ==
    <<a.d, CharCode(a.sep), a.h>> \o (IF a.z THEN <<CharCode("Z")>> ELSE <<>>)

(* Python's str < str: lexicographic, a proper prefix is smaller *)
RECURSIVE LexLess(_, _)
LexLess(x, y) ==
    IF y = <<>> THEN FALSE
    ELSE IF x = <<>> THEN TRUE
    ELSE IF Head(x) # Head(y) THEN Head(x) < Head(y)
    ELSE LexLess(Tail(x), Tail(y))

StrLess(a, b) == LexLess(AddedKey(a), AddedKey(b))

(* datetime.fromisoformat(s.replace("Z", "+00:00")) *)
fromisoformat(a) == [t |-> a.d * HoursPerDay + a.h, aware |-> a.z]

Instant(dt) == dt.d * HoursPerDay + dt.h

NaiveAwareMsg == <<"can't compare offset-naive and offset-aware datetimes">>
IsoFormatMsg == <<"Invalid isoformat string: 'not-a-date'">>
TimedeltaMsg == <<"unsupported type for timedelta days component: str">>

-----------------------------------------------------------------------------
(* recent(days): get_recent_series / get_recent_movies                     *)

(* the dict appended to `recent` for a kept entity *)
RecentItem(show, b) ==
    IF b = "sonarr"
      THEN [title |-> show.title,
            year |-> Get(show, "year", <<None>>),
            added |-> show.added,
            status |-> show.status,
            network |-> Get(show, "network", <<None>>),
            seasons |-> Get(show, "seasonCount", <<"0">>)]
      ELSE [title |-> show.title,
            year |-> Get(show, "year", <<None>>),
            added |-> show.added,
            status |-> show.status,
            studio |-> Get(show, "studio", <<None>>)]

(* a variant that skips an entity whose `added` is absent or unparsable *)
RECURSIVE RecentLoop_skipping(_, _, _, _)
RecentLoop_skipping(entities, cutoff, b, recent) ==
    IF entities = <<>> THEN [ok |-> TRUE, val |-> recent]
    ELSE LET show == Head(entities) IN
         IF ~Has(show, "added") \/ ~show.added.valid
           THEN RecentLoop_skipping(Tail(entities), cutoff, b, recent)
         ELSE IF fromisoformat(show.added).aware
           THEN [ok |-> FALSE, err |-> NaiveAwareMsg]
         ELSE IF fromisoformat(show.added).t > cutoff
           THEN RecentLoop_skipping(Tail(entities), cutoff, b,
                                    Append(recent, RecentItem(show, b)))
         ELSE RecentLoop_skipping(Tail(entities), cutoff, b, recent)

(* the for loop over the fetched collection: the first entity that raises  *)
(* ends the loop with that exception                                       *)
RECURSIVE RecentLoop(_, _, _, _)
RecentLoop(entities, cutoff, b, recent) ==
    IF entities = <<>> THEN [ok |-> TRUE, val |-> recent]
    ELSE LET show == Head(entities) IN
         IF ~Has(show, "added") THEN [ok |-> FALSE, err |-> KeyError("added")]
         ELSE IF ~show.added.valid THEN [ok |-> FALSE, err |-> IsoFormatMsg]
         ELSE IF fromisoformat(show.added).aware
           THEN [ok |-> FALSE, err |-> NaiveAwareMsg]
         ELSE IF fromisoformat(show.added).t > cutoff
           THEN IF ~Has(show, "title")
                  THEN [ok |-> FALSE, err |-> KeyError("title")]
                ELSE IF ~Has(show, "status")
                  THEN [ok |-> FALSE, err |-> KeyError("status")]
                ELSE RecentLoop(Tail(entities), cutoff, b,
                                Append(recent, RecentItem(show, b)))
         ELSE RecentLoop(Tail(entities), cutoff, b, recent)

(* list.sort(key=lambda x: x["added"], reverse=True): a stable sort on the *)
(* `added` STRING, largest first, equal keys keeping their original order  *)
RECURSIVE InsertDesc(_, _)
InsertDesc(sorted, x) ==
    IF sorted = <<>> THEN <<x>>
    ELSE IF StrLess(Head(sorted).added, x.added)
      THEN <<x>> \o sorted
      ELSE <<Head(sorted)>> \o InsertDesc(Tail(sorted), x)

RECURSIVE SortByAddedDesc(_)
SortByAddedDesc(items) ==
    IF items = <<>> THEN <<>>
    ELSE InsertDesc(SortByAddedDesc(SubSeq(items, 1, Len(items) - 1)),
                    items[Len(items)])

RenderSeries(show) ==
    <<"- ">> \o show.title \o <<" (">> \o show.year \o <<")\n">>
    \o <<"  Added: ">> \o AddedText(show.added) \o <<"\n">>
    \o <<"  Network: ">> \o show.network \o <<"\n">>
    \o <<"  Seasons: ">> \o show.seasons \o <<"\n\n">>

RenderMovie(movie) ==
    <<"- ">> \o movie.title \o <<" (">> \o movie.year \o <<")\n">>
    \o <<"  Added: ">> \o AddedText(movie.added) \o <<"\n">>
    \o <<"  Studio: ">> \o movie.studio \o <<"\n\n">>

RenderRecent(items, days, b) ==
    IF b = "sonarr"
      THEN IF items = <<>>
             THEN <<"No series added in the last ", Str(days), " days.">>
             ELSE <<"Recently added series (last ", Str(days), " days):\n\n">>
                  \o Flatten([i \in 1..Len(items) |-> RenderSeries(items[i])])
      ELSE IF items = <<>>
             THEN <<"No movies added in the last ", Str(days), " days.">>
             ELSE <<"Recently added movies (last ", Str(days), " days):\n\n">>
                  \o Flatten([i \in 1..Len(items) |-> RenderMovie(items[i])])

Recent(b, client, endpoint, days, now, resp) ==
    LET r == ApiGet(b, client, endpoint, <<>>, resp) IN
    IF ~r.ok THEN r
    ELSE IF days.t # "int" THEN Raise(TimedeltaMsg, r.out)
    ELSE LET cutoff == Instant(now) - days.n * HoursPerDay
             loop == RecentLoop(r.val, cutoff, b, <<>>)
         IN IF ~loop.ok THEN Raise(loop.err, r.out)
            ELSE Ok(RenderRecent(SortByAddedDesc(loop.val), days.n, b), r.out)

get_recent_series(client, days, now, resp) ==
    Recent("sonarr", client, "series", days, now, resp)

get_recent_movies(client, days, now, resp) ==
    Recent("radarr", client, "movie", days, now, resp)

-----------------------------------------------------------------------------
(* search(query): search_sonarr_series / search_radarr_movies              *)

SearchLimit == 10

LowerChar(c) == IF c = "A" THEN "a" ELSE IF c = "B" THEN "b" ELSE c

lower(s) == [i \in 1..Len(s) |-> LowerChar(s[i])]

(* Python's `needle in hay` on two strings *)
Contains(hay, needle) ==
    \E i \in 0..(Len(hay) - Len(needle)) :
        SubSeq(hay, i + 1, i + Len(needle)) = needle

AttributeLowerMsg == <<"'int' object has no attribute 'lower'">>

(* the list comprehension [s for s in series if query.lower() in ...] *)
RECURSIVE MatchLoop(_, _, _)
MatchLoop(entities, query, matches) ==
    IF entities = <<>> THEN [ok |-> TRUE, val |-> matches]
    ELSE LET s == Head(entities) IN
         IF query.t # "str" THEN [ok |-> FALSE, err |-> AttributeLowerMsg]
         ELSE IF ~Has(s, "title") THEN [ok |-> FALSE, err |-> KeyError("title")]
         ELSE IF Contains(lower(s.title), lower(query.s))
           THEN MatchLoop(Tail(entities), query, Append(matches, s))
         ELSE MatchLoop(Tail(entities), query, matches)

RenderMatch(show, b) ==
    <<"- ">> \o show.title \o <<" (">> \o Get(show, "year", <<"N/A">>) \o <<")\n">>
    \o <<"  Status: ">> \o show.status \o <<"\n">>
    \o (IF b = "sonarr"
          THEN <<"  Seasons: ">> \o Get(show, "seasonCount", <<"0">>) \o <<"\n">>
          ELSE <<>>)
    \o <<"  ID: ", Str(show.id), "\n\n">>

RECURSIVE RenderMatches(_, _, _)
RenderMatches(shown, b, result) ==
    IF shown = <<>> THEN [ok |-> TRUE, val |-> result]
    ELSE LET show == Head(shown) IN
         IF ~Has(show, "status") THEN [ok |-> FALSE, err |-> KeyError("status")]
         ELSE IF ~Has(show, "id") THEN [ok |-> FALSE, err |-> KeyError("id")]
         ELSE RenderMatches(Tail(shown), b, result \o RenderMatch(show, b))

(* a variant without the cap *)
FirstN_uncapped(seq, n) == seq

(* matches[:10] *)
FirstN(seq, n) == SubSeq(seq, 1, IF Len(seq) < n THEN Len(seq) ELSE n)

SearchNotFound(b, query) ==
    IF b = "sonarr"
      THEN <<"No series found matching '">> \o PyStr(query) \o <<"'.">>
      ELSE <<"No movies found matching '">> \o PyStr(query) \o <<"'.">>

SearchHeader(b, query) ==
    IF b = "sonarr"
      THEN <<"Series matching '">> \o PyStr(query) \o <<"':\n\n">>
      ELSE <<"Movies matching '">> \o PyStr(query) \o <<"':\n\n">>

Search(b, client, endpoint, query, resp) ==
    LET r == ApiGet(b, client, endpoint, <<>>, resp) IN
    IF ~r.ok THEN r
    ELSE LET m == MatchLoop(r.val, query, <<>>) IN
         IF ~m.ok THEN Raise(m.err, r.out)
         ELSE IF m.val = <<>> THEN Ok(SearchNotFound(b, query), r.out)
         ELSE LET text == RenderMatches(FirstN(m.val, SearchLimit), b,
                                        SearchHeader(b, query))
              IN IF text.ok THEN Ok(text.val, r.out)
                 ELSE Raise(text.err, r.out)

search_sonarr_series(client, query, resp) ==
    Search("sonarr", client, "series", query, resp)

search_radarr_movies(client, query, resp) ==
    Search("radarr", client, "movie", query, resp)

-----------------------------------------------------------------------------
(* refresh(id) / triggerSearch(id): one POST to the command endpoint       *)

(* a variant that confirms whatever became of the POST *)
Command_optimistic(b, client, payload, confirmation, resp) ==
    Ok(confirmation, ApiPost(b, client, "command", payload, resp).out)

Command(b, client, payload, confirmation, resp) ==
    LET r == ApiPost(b, client, "command", payload, resp) IN
    IF ~r.ok THEN r ELSE Ok(confirmation, r.out)

refresh_sonarr_series(client, series_id, resp) ==
    Command("sonarr", client,
            [name |-> "RefreshSeries", seriesId |-> series_id],
            <<"Refresh triggered for series ID ">> \o PyStr(series_id), resp)

search_sonarr_episodes(client, series_id, resp) ==
    Command("sonarr", client,
            [name |-> "SeriesSearch", seriesId |-> series_id],
            <<"Episode search triggered for series ID ">> \o PyStr(series_id),
            resp)

(* a variant that sends the id the way the series commands do *)
refresh_radarr_movie_scalar(client, movie_id, resp) ==
    Command("radarr", client,
            [name |-> "RefreshMovie", movieId |-> movie_id],
            <<"Refresh triggered for movie ID ">> \o PyStr(movie_id), resp)

refresh_radarr_movie(client, movie_id, resp) ==
    Command("radarr", client,
            [name |-> "RefreshMovie", movieIds |-> <<movie_id>>],
            <<"Refresh triggered for movie ID ">> \o PyStr(movie_id), resp)

search_radarr_movie(client, movie_id, resp) ==
    Command("radarr", client,
            [name |-> "MoviesSearch", movieIds |-> <<movie_id>>],
            <<"Search triggered for movie ID ">> \o PyStr(movie_id), resp)

-----------------------------------------------------------------------------
(* calendar(days)                                                          *)

RenderEpisode(episode) ==
    <<"- ">> \o episode.series.title
    \o <<" - S", Pad2(episode.seasonNumber), "E", Pad2(episode.episodeNumber), "\n">>
    \o <<"  Title: ">> \o Get(episode, "title", <<"TBA">>) \o <<"\n">>
    \o <<"  Airs: ">> \o Get(episode, "airDateUtc", <<"Unknown">>) \o <<"\n\n">>

RenderRelease(movie) ==
    <<"- ">> \o movie.title \o <<" (">> \o Get(movie, "year", <<"N/A">>) \o <<")\n">>
    \o <<"  Release: ">> \o Get(movie, "inCinemas", <<"TBA">>) \o <<"\n">>
    \o <<"  Status: ">> \o movie.status \o <<"\n\n">>

(* the keys an entry is subscripted with, in the order the code reads them *)
CalendarKeys(b) ==
    IF b = "sonarr" THEN <<"series", "seasonNumber", "episodeNumber">>
    ELSE <<"title", "status">>

FirstMissing(d, keys) ==
    IF \E i \in 1..Len(keys) : ~Has(d, keys[i])
      THEN <<keys[CHOOSE i \in 1..Len(keys) :
                    /\ ~Has(d, keys[i])
                    /\ \A j \in 1..(i - 1) : Has(d, keys[j])]>>
      ELSE <<>>

RECURSIVE RenderEntries(_, _, _)
RenderEntries(entries, b, result) ==
    IF entries = <<>> THEN [ok |-> TRUE, val |-> result]
    ELSE LET e == Head(entries)
             missing == FirstMissing(e, CalendarKeys(b))
         IN IF missing # <<>> THEN [ok |-> FALSE, err |-> KeyError(missing[1])]
            ELSE RenderEntries(Tail(entries), b,
                    result \o (IF b = "sonarr" THEN RenderEpisode(e)
                               ELSE RenderRelease(e)))

CalendarEmpty(b, days) ==
    IF b = "sonarr"
      THEN <<"No episodes airing in the next ", Str(days), " days.">>
      ELSE <<"No movies releasing in the next ", Str(days), " days.">>

CalendarHeader(b, days) ==
    IF b = "sonarr"
      THEN <<"Upcoming episodes (next ", Str(days), " days):\n\n">>
      ELSE <<"Upcoming movie releases (next ", Str(days), " days):\n\n">>

Calendar(b, client, days, now, resp) ==
    IF days.t # "int" THEN Raise(TimedeltaMsg, <<>>)
    ELSE LET start == Instant(now)
             end == start + days.n * HoursPerDay
             r == ApiGet(b, client, "calendar",
                         [start |-> start, end |-> end], resp)
         IN IF ~r.ok THEN r
            ELSE IF r.val = <<>> THEN Ok(CalendarEmpty(b, days.n), r.out)
            ELSE LET text == RenderEntries(r.val, b, CalendarHeader(b, days.n))
                 IN IF text.ok THEN Ok(text.val, r.out)
                    ELSE Raise(text.err, r.out)

get_sonarr_calendar(client, days, now, resp) ==
    Calendar("sonarr", client, days, now, resp)

get_radarr_calendar(client, days, now, resp) ==
    Calendar("radarr", client, days, now, resp)

-----------------------------------------------------------------------------
(* status(): system/status, then diskspace                                 *)

GiB == 1024 * 1024 * 1024
MiB == 1024 * 1024

(* f"{n / unit:.2f}", for the sizes of the model (n % unit below 2^24) *)
Fmt2(n, unit) ==
    LET whole == n \div unit
        num == (n % unit) * 100
        q == num \div unit
        rem == num % unit
        up == (2 * rem > unit) \/ (2 * rem = unit /\ q % 2 = 1)
        h == whole * 100 + q + (IF up THEN 1 ELSE 0)
    IN <<Str(h \div 100), ".", Pad2(h % 100)>>

RECURSIVE RenderDisks(_, _)
RenderDisks(disks, result) ==
    IF disks = <<>> THEN [ok |-> TRUE, val |-> result]
    ELSE LET disk == Head(disks)
             missing == FirstMissing(disk, <<"freeSpace", "totalSpace", "path">>)
         IN IF missing # <<>> THEN [ok |-> FALSE, err |-> KeyError(missing[1])]
            ELSE RenderDisks(Tail(disks),
                   result \o <<"- ">> \o disk.path \o <<": ">>
                   \o Fmt2(disk.freeSpace, GiB) \o <<" GB free of ">>
                   \o Fmt2(disk.totalSpace, GiB) \o <<" GB\n">>)

Status(b, client, resps) ==
    LET r1 == ApiGet(b, client, "system/status", <<>>, resps[1]) IN
    IF ~r1.ok THEN r1
    ELSE LET r2 == ApiGet(b, client, "diskspace", <<>>, resps[2])
             out == r1.out \o r2.out
         IN IF ~r2.ok THEN Raise(r2.err, out)
            ELSE IF ~Has(r1.val, "version") THEN Raise(KeyError("version"), out)
            ELSE LET head ==
                        <<IF b = "sonarr" THEN "Sonarr System Status:\n\n"
                          ELSE "Radarr System Status:\n\n">>
                        \o <<"Version: ">> \o r1.val.version \o <<"\n">>
                        \o <<"OS: ">> \o Get(r1.val, "osName", <<"Unknown">>) \o <<"\n">>
                        \o <<"Runtime: ">> \o Get(r1.val, "runtimeName", <<"Unknown">>)
                        \o <<"\n\n", "Disk Space:\n">>
                     text == RenderDisks(r2.val, head)
                 IN IF text.ok THEN Ok(text.val, out) ELSE Raise(text.err, out)

get_sonarr_status(client, resps) == Status("sonarr", client, resps)

get_radarr_status(client, resps) == Status("radarr", client, resps)

-----------------------------------------------------------------------------
(* queue()                                                                 *)

QueueKeys(b) == IF b = "sonarr" THEN <<"series", "episode", "status">>
                ELSE <<"movie", "status">>

RenderQueueItem(item, b) ==
    (IF b = "sonarr"
       THEN <<"- ">> \o item.series.title
            \o <<" - S", Pad2(item.episode.seasonNumber),
                 "E", Pad2(item.episode.episodeNumber), "\n">>
       ELSE <<"- ">> \o item.movie.title
            \o <<" (">> \o Get(item.movie, "year", <<"N/A">>) \o <<")\n">>)
    \o <<"  Status: ">> \o item.status \o <<"\n">>
    \o <<"  Progress: ">> \o Fmt2(Get(item, "sizeleft", 0), MiB)
    \o <<" MB remaining\n\n">>

RECURSIVE RenderQueue(_, _, _)
RenderQueue(records, b, result) ==
    IF records = <<>> THEN [ok |-> TRUE, val |-> result]
    ELSE LET item == Head(records)
             missing == FirstMissing(item, QueueKeys(b))
         IN IF missing # <<>> THEN [ok |-> FALSE, err |-> KeyError(missing[1])]
            ELSE RenderQueue(Tail(records), b, result \o RenderQueueItem(item, b))

Queue(b, client, resp) ==
    LET r == ApiGet(b, client, "queue", <<>>, resp) IN
    IF ~r.ok THEN r
    ELSE IF Get(r.val, "records", <<>>) = <<>>
      THEN Ok(<<"Download queue is empty.">>, r.out)
    ELSE LET text == RenderQueue(r.val.records, b,
                                 <<"Current Download Queue:\n\n">>)
         IN IF text.ok THEN Ok(text.val, r.out) ELSE Raise(text.err, r.out)

get_sonarr_queue(client, resp) == Queue("sonarr", client, resp)

get_radarr_queue(client, resp) == Queue("radarr", client, resp)

-----------------------------------------------------------------------------
(* call_tool: the dispatch of the tool-invocation transport.  `arguments`  *)
(* is [isNone |-> TRUE] (no argument bag) or [isNone |-> FALSE, d |-> dict] *)

NoneGetMsg == <<"'NoneType' object has no attribute 'get'">>
NoneSubscriptMsg == <<"'NoneType' object is not subscriptable">>

(* arguments.get(key, default) *)
ArgGet(arguments, key, default) ==
    IF arguments.isNone THEN [ok |-> FALSE, err |-> NoneGetMsg]
    ELSE [ok |-> TRUE, val |-> Get(arguments.d, key, default)]

(* arguments[key] *)
ArgItem(arguments, key) ==
    IF arguments.isNone THEN [ok |-> FALSE, err |-> NoneSubscriptMsg]
    ELSE IF ~Has(arguments.d, key) THEN [ok |-> FALSE, err |-> KeyError(key)]
    ELSE [ok |-> TRUE, val |-> arguments.d[key]]

SonarrTools == {"sonarr_get_recent_series", "sonarr_get_calendar",
                "sonarr_search_series", "sonarr_get_system_status",
                "sonarr_get_queue", "sonarr_refresh_series",
                "sonarr_search_episodes"}

RadarrTools == {"radarr_get_recent_movies", "radarr_get_calendar",
                "radarr_search_movies", "radarr_get_system_status",
                "radarr_get_queue", "radarr_refresh_movie",
                "radarr_search_movie"}

NotConfiguredText(b) ==
    IF b = "sonarr" THEN <<"Sonarr is not configured">>
    ELSE <<"Radarr is not configured">>

(* a variant that reads the required arguments with .get and a default *)
ToolArg_defaults(name, arguments) ==
    CASE name \in {"sonarr_get_recent_series", "sonarr_get_calendar",
                   "radarr_get_recent_movies"} -> ArgGet(arguments, "days", IntV(7))
      [] name = "radarr_get_calendar" -> ArgGet(arguments, "days", IntV(30))
      [] name \in {"sonarr_search_series", "radarr_search_movies"} ->
            [ok |-> TRUE,
             val |-> IF arguments.isNone THEN StrV(<<>>)
                     ELSE Get(arguments.d, "query", StrV(<<>>))]
      [] name \in {"sonarr_refresh_series", "sonarr_search_episodes"} ->
            [ok |-> TRUE,
             val |-> IF arguments.isNone THEN IntV(0)
                     ELSE Get(arguments.d, "series_id", IntV(0))]
      [] name \in {"radarr_refresh_movie", "radarr_search_movie"} ->
            [ok |-> TRUE,
             val |-> IF arguments.isNone THEN IntV(0)
                     ELSE Get(arguments.d, "movie_id", IntV(0))]
      [] OTHER -> [ok |-> TRUE, val |-> IntV(0)]

(* the argument expression of each branch: how the bag is read *)
ToolArg(name, arguments) ==
    CASE name \in {"sonarr_get_recent_series", "sonarr_get_calendar",
                   "radarr_get_recent_movies"} -> ArgGet(arguments, "days", IntV(7))
      [] name = "radarr_get_calendar" -> ArgGet(arguments, "days", IntV(30))
      [] name \in {"sonarr_search_series", "radarr_search_movies"} ->
            ArgItem(arguments, "query")
      [] name \in {"sonarr_refresh_series", "sonarr_search_episodes"} ->
            ArgItem(arguments, "series_id")
      [] name \in {"radarr_refresh_movie", "radarr_search_movie"} ->
            ArgItem(arguments, "movie_id")
      [] OTHER -> [ok |-> TRUE, val |-> IntV(0)]

(* the facade call of each branch *)
ToolCall(name, client, arg, now, resps) ==
    CASE name = "sonarr_get_recent_series" -> get_recent_series(client, arg, now, resps[1])
      [] name = "sonarr_get_calendar" -> get_sonarr_calendar(client, arg, now, resps[1])
      [] name = "sonarr_search_series" -> search_sonarr_series(client, arg, resps[1])
      [] name = "sonarr_get_system_status" -> get_sonarr_status(client, resps)
      [] name = "sonarr_get_queue" -> get_sonarr_queue(client, resps[1])
      [] name = "sonarr_refresh_series" -> refresh_sonarr_series(client, arg, resps[1])
      [] name = "sonarr_search_episodes" -> search_sonarr_episodes(client, arg, resps[1])
      [] name = "radarr_get_recent_movies" -> get_recent_movies(client, arg, now, resps[1])
      [] name = "radarr_get_calendar" -> get_radarr_calendar(client, arg, now, resps[1])
      [] name = "radarr_search_movies" -> search_radarr_movies(client, arg, resps[1])
      [] name = "radarr_get_system_status" -> get_radarr_status(client, resps)
      [] name = "radarr_get_queue" -> get_radarr_queue(client, resps[1])
      [] name = "radarr_refresh_movie" -> refresh_radarr_movie(client, arg, resps[1])
      [] name = "radarr_search_movie" -> search_radarr_movie(client, arg, resps[1])

(* a variant in which every branch tests and uses the Sonarr client *)
ToolClient_sonarr_only(self, name) == self.sonarr_client

(* the client a branch tests and uses *)
ToolClient(self, name) ==
    IF name \in SonarrTools THEN self.sonarr_client ELSE self.radarr_client

ToolBackend(name) == IF name \in SonarrTools THEN "sonarr" ELSE "radarr"

(* the body of the try block *)
ToolBranch(self, name, arguments, now, resps) ==
    IF name \notin SonarrTools \cup RadarrTools
      THEN Ok(<<"Unknown tool: ", name>>, <<>>)
    ELSE IF ToolClient(self, name) = <<>>
      THEN Ok(NotConfiguredText(ToolBackend(name)), <<>>)
    ELSE LET arg == ToolArg(name, arguments) IN
         IF ~arg.ok THEN Raise(arg.err, <<>>)
         ELSE ToolCall(name, ToolClient(self, name)[1], arg.val, now, resps)

(* a variant without the except clause *)
call_tool_uncaught(self, name, arguments, now, resps) ==
    LET r == ToolBranch(self, name, arguments, now, resps) IN
    IF r.ok THEN [raised |-> FALSE, text |-> r.val, out |-> r.out]
    ELSE [raised |-> TRUE, err |-> r.err, out |-> r.out]

(* try: ... except Exception as e: return "Error: " + str(e) *)
call_tool(self, name, arguments, now, resps) ==
    LET r == ToolBranch(self, name, arguments, now, resps) IN
    IF r.ok THEN [raised |-> FALSE, text |-> r.val, out |-> r.out]
    ELSE [raised |-> FALSE, text |-> <<"Error: ">> \o r.err, out |-> r.out]

-----------------------------------------------------------------------------
(* The HTTP routes.  `inst` is the global mcp_instance: <<>> for None.     *)
(* `params` is request.query_params: a dict of strings.                    *)

Digits == <<"0", "1", "2", "3", "4", "5", "6", "7", "8", "9">>

IsDigit(c) == \E i \in 1..10 : Digits[i] = c

DigitVal(c) == (CHOOSE i \in 1..10 : Digits[i] = c) - 1

RECURSIVE DecimalValue(_)
DecimalValue(s) ==
    IF s = <<>> THEN 0
    ELSE 10 * DecimalValue(SubSeq(s, 1, Len(s) - 1)) + DigitVal(s[Len(s)])

(* int(x) of request.query_params.get("days", default) *)
ParseDays(params, default) ==
    IF ~Has(params, "days") THEN [ok |-> TRUE, val |-> IntV(default)]
    ELSE LET s == params["days"] IN
         IF s # <<>> /\ \A i \in 1..Len(s) : IsDigit(s[i])
           THEN [ok |-> TRUE, val |-> IntV(DecimalValue(s))]
           ELSE [ok |-> FALSE,
                 err |-> <<"invalid literal for int() with base 10: '">>
                         \o s \o <<"'">>]

JSONResponse(status, key, value, out) ==
    [raised |-> FALSE, status |-> status,
     body |-> [key |-> key, value |-> value], out |-> out]

(* an exception that leaves the handler: no response is built by it *)
Unhandled(err) == [raised |-> TRUE, err |-> err, out |-> <<>>]

HttpNotConfigured(b) ==
    JSONResponse(503, "error",
                 IF b = "sonarr" THEN <<"Sonarr not configured">>
                 ELSE <<"Radarr not configured">>, <<>>)

(* try: result = await ...; return {"result": result}                      *)
(* except Exception as e: return {"error": str(e)}, 500                    *)
TryResult(r) ==
    IF r.ok THEN JSONResponse(200, "result", r.val, r.out)
    ELSE JSONResponse(500, "error", r.err, r.out)

(* `not mcp_instance or not mcp_instance.<b>_client` *)
NoClient(inst, b) ==
    \/ inst = <<>>
    \/ (IF b = "sonarr" THEN inst[1].sonarr_client ELSE inst[1].radarr_client) = <<>>

ClientOf(inst, b) ==
    IF b = "sonarr" THEN inst[1].sonarr_client[1] ELSE inst[1].radarr_client[1]

health == [raised |-> FALSE, status |-> 200,
           body |-> [status |-> "healthy"], out |-> <<>>]

(* a variant that reports the two flags under each other's name *)
readiness_swapped(inst) ==
    IF inst = <<>>
      THEN [raised |-> FALSE, status |-> 503,
            body |-> [status |-> "not ready"], out |-> <<>>]
      ELSE [raised |-> FALSE, status |-> 200,
            body |-> [status |-> "ready",
                      sonarr_configured |-> inst[1].radarr_client # <<>>,
                      radarr_configured |-> inst[1].sonarr_client # <<>>],
            out |-> <<>>]

readiness(inst) ==
    IF inst = <<>>
      THEN [raised |-> FALSE, status |-> 503,
            body |-> [status |-> "not ready"], out |-> <<>>]
      ELSE [raised |-> FALSE, status |-> 200,
            body |-> [status |-> "ready",
                      sonarr_configured |-> inst[1].sonarr_client # <<>>,
                      radarr_configured |-> inst[1].radarr_client # <<>>],
            out |-> <<>>]

sonarr_recent_series(inst, params, now, resps) ==
    IF NoClient(inst, "sonarr") THEN HttpNotConfigured("sonarr")
    ELSE LET days == ParseDays(params, 7) IN
         IF ~days.ok THEN Unhandled(days.err)
         ELSE TryResult(get_recent_series(ClientOf(inst, "sonarr"), days.val,
                                          now, resps[1]))

sonarr_calendar(inst, params, now, resps) ==
    IF NoClient(inst, "sonarr") THEN HttpNotConfigured("sonarr")
    ELSE LET days == ParseDays(params, 7) IN
         IF ~days.ok THEN Unhandled(days.err)
         ELSE TryResult(get_sonarr_calendar(ClientOf(inst, "sonarr"), days.val,
                                            now, resps[1]))

(* a variant that validates the query before it looks at the client *)
sonarr_search_query_first(inst, params, now, resps) ==
    LET query == Get(params, "query", <<>>) IN
    IF query = <<>>
      THEN JSONResponse(400, "error", <<"query parameter required">>, <<>>)
    ELSE IF NoClient(inst, "sonarr") THEN HttpNotConfigured("sonarr")
    ELSE TryResult(search_sonarr_series(ClientOf(inst, "sonarr"),
                                        StrV(query), resps[1]))

sonarr_search(inst, params, now, resps) ==
    IF NoClient(inst, "sonarr") THEN HttpNotConfigured("sonarr")
    ELSE LET query == Get(params, "query", <<>>) IN
         IF query = <<>>
           THEN JSONResponse(400, "error", <<"query parameter required">>, <<>>)
           ELSE TryResult(search_sonarr_series(ClientOf(inst, "sonarr"),
                                               StrV(query), resps[1]))

sonarr_status(inst, params, now, resps) ==
    IF NoClient(inst, "sonarr") THEN HttpNotConfigured("sonarr")
    ELSE TryResult(get_sonarr_status(ClientOf(inst, "sonarr"), resps))

(* a variant whose handler triggers a refresh command on the backend *)
sonarr_queue_refreshing(inst, params, now, resps) ==
    IF NoClient(inst, "sonarr") THEN HttpNotConfigured("sonarr")
    ELSE TryResult(refresh_sonarr_series(ClientOf(inst, "sonarr"), IntV(1),
                                         resps[1]))

sonarr_queue(inst, params, now, resps) ==
    IF NoClient(inst, "sonarr") THEN HttpNotConfigured("sonarr")
    ELSE TryResult(get_sonarr_queue(ClientOf(inst, "sonarr"), resps[1]))

radarr_recent_movies(inst, params, now, resps) ==
    IF NoClient(inst, "radarr") THEN HttpNotConfigured("radarr")
    ELSE LET days == ParseDays(params, 7) IN
         IF ~days.ok THEN Unhandled(days.err)
         ELSE TryResult(get_recent_movies(ClientOf(inst, "radarr"), days.val,
                                          now, resps[1]))

(* a variant whose default is the one of the series routes *)
radarr_calendar_week(inst, params, now, resps) ==
    IF NoClient(inst, "radarr") THEN HttpNotConfigured("radarr")
    ELSE LET days == ParseDays(params, 7) IN
         IF ~days.ok THEN Unhandled(days.err)
         ELSE TryResult(get_radarr_calendar(ClientOf(inst, "radarr"), days.val,
                                            now, resps[1]))

radarr_calendar(inst, params, now, resps) ==
    IF NoClient(inst, "radarr") THEN HttpNotConfigured("radarr")
    ELSE LET days == ParseDays(params, 30) IN
         IF ~days.ok THEN Unhandled(days.err)
         ELSE TryResult(get_radarr_calendar(ClientOf(inst, "radarr"), days.val,
                                            now, resps[1]))

radarr_search(inst, params, now, resps) ==
    IF NoClient(inst, "radarr") THEN HttpNotConfigured("radarr")
    ELSE LET query == Get(params, "query", <<>>) IN
         IF query = <<>>
           THEN JSONResponse(400, "error", <<"query parameter required">>, <<>>)
           ELSE TryResult(search_radarr_movies(ClientOf(inst, "radarr"),
                                               StrV(query), resps[1]))

radarr_status(inst, params, now, resps) ==
    IF NoClient(inst, "radarr") THEN HttpNotConfigured("radarr")
    ELSE TryResult(get_radarr_status(ClientOf(inst, "radarr"), resps))

radarr_queue(inst, params, now, resps) ==
    IF NoClient(inst, "radarr") THEN HttpNotConfigured("radarr")
    ELSE TryResult(get_radarr_queue(ClientOf(inst, "radarr"), resps[1]))

-----------------------------------------------------------------------------
(* What the backends can answer.  The payloads are small on purpose; the   *)
(* single-operation specifications below vary the collections.             *)

Now == [d |-> 10, h |-> 0]

Naive(d, h) == [valid |-> TRUE, d |-> d, sep |-> "T", h |-> h, z |-> FALSE]
Zulu(d, h) == [valid |-> TRUE, d |-> d, sep |-> "T", h |-> h, z |-> TRUE]

EntitiesNaive ==
    <<[id |-> 1, title |-> <<"A", "b">>, added |-> Naive(9, 0),
       status |-> <<"continuing">>, year |-> <<"2020">>,
       network |-> <<"HBO">>, studio |-> <<"A24">>, seasonCount |-> <<"2">>],
      [id |-> 2, title |-> <<"b">>, added |-> Naive(1, 0),
       status |-> <<"ended">>]>>

EntitiesZulu ==
    <<[id |-> 1, title |-> <<"A", "b">>, added |-> Zulu(9, 0),
       status |-> <<"continuing">>, year |-> <<"2020">>]>>

EntitiesMalformed == <<[id |-> 1, title |-> <<"A", "b">>]>>

EpisodeOk == [series |-> [title |-> <<"A", "b">>], seasonNumber |-> 1,
              episodeNumber |-> 12, title |-> <<"Pilot">>]

ReleaseOk == [title |-> <<"A", "b">>, status |-> <<"announced">>]

QueueItemOk(b) ==
    IF b = "sonarr"
      THEN [series |-> [title |-> <<"A", "b">>],
            episode |-> [seasonNumber |-> 1, episodeNumber |-> 2],
            status |-> <<"downloading">>, sizeleft |-> (3 * MiB) \div 2]
      ELSE [movie |-> [title |-> <<"A", "b">>],
            status |-> <<"downloading">>, sizeleft |-> (3 * MiB) \div 2]

Payloads(b, endpoint) ==
    CASE endpoint \in {"series", "movie"} ->
            {EntitiesNaive, EntitiesZulu, EntitiesMalformed}
      [] endpoint = "calendar" ->
            {<<>>, <<IF b = "sonarr" THEN EpisodeOk ELSE ReleaseOk>>,
             <<[id |-> 1]>>}
      [] endpoint = "system/status" ->
            {[version |-> <<"4.0.1">>, osName |-> <<"linux">>],
             [osName |-> <<"linux">>]}
      [] endpoint = "diskspace" ->
            {<<[path |-> <<"/tv">>, freeSpace |-> 5 * MiB, totalSpace |-> GiB]>>}
      [] endpoint = "queue" ->
            {[totalRecords |-> 0], [records |-> <<QueueItemOk(b)>>],
             [records |-> <<[id |-> 1]>>]}
      [] OTHER -> {[id |-> 1]}

StatusCodes == {500}

Failures == {StatusResp(c) : c \in StatusCodes} \cup {ConnectResp, BadJsonResp}

Responses(b, endpoint) ==
    {OkResp(p) : p \in Payloads(b, endpoint)} \cup Failures

(* the endpoints an operation may contact, in order *)
Endpoints(op) ==
    CASE op \in {"sonarr_get_recent_series", "sonarr_search_series",
                 "/api/sonarr/recent", "/api/sonarr/search"} -> <<"series">>
      [] op \in {"radarr_get_recent_movies", "radarr_search_movies",
                 "/api/radarr/recent", "/api/radarr/search"} -> <<"movie">>
      [] op \in {"sonarr_get_calendar", "radarr_get_calendar",
                 "/api/sonarr/calendar", "/api/radarr/calendar"} -> <<"calendar">>
      [] op \in {"sonarr_get_system_status", "radarr_get_system_status",
                 "/api/sonarr/status", "/api/radarr/status"} ->
            <<"system/status", "diskspace">>
      [] op \in {"sonarr_get_queue", "radarr_get_queue",
                 "/api/sonarr/queue", "/api/radarr/queue"} -> <<"queue">>
      [] OTHER -> <<"command">>

ResponseSeqs(b, op) ==
    LET eps == Endpoints(op) IN
    IF Len(eps) = 1 THEN {<<r>> : r \in Responses(b, eps[1])}
    ELSE {<<r1, r2>> : r1 \in Responses(b, eps[1]), r2 \in Responses(b, eps[2])}

-----------------------------------------------------------------------------
(* Inputs of the requests                                                  *)

Chars == {"h", "/"}
Urls == SeqsUpTo(Chars, MaxUrlLen)
Keys == {<<>>, <<"k">>}

Envs(urls) ==
    [SONARR_URL : urls, SONARR_API_KEY : Keys,
     RADARR_URL : urls, RADARR_API_KEY : Keys]

ToolNames == SonarrTools \cup RadarrTools \cup {"sonarr_delete_series"}

NoArguments == [isNone |-> TRUE]
Bag(d) == [isNone |-> FALSE, d |-> d]

ArgumentBags ==
    {NoArguments,
     Bag(<<>>),
     Bag([days |-> IntV(1)]),
     Bag([days |-> StrV(<<"x">>)]),
     Bag([query |-> StrV(<<>>)]),
     Bag([query |-> StrV(<<"a">>)]),
     Bag([series_id |-> IntV(5), movie_id |-> IntV(6)])}

QueryParams ==
    {<<>>,
     [days |-> <<"1">>],
     [days |-> <<"x">>],
     [query |-> <<>>],
     [query |-> <<"a">>]}

-----------------------------------------------------------------------------
(* The server as a state machine                                           *)

NoRequest == [transport |-> "none"]
NoInput == [op |-> "none"]

InitWith(urls) ==
    /\ env \in Envs(urls)
    /\ mode \in {"stdio", "http"}
    /\ phase = "new"
    /\ mcp = <<>>
    /\ mcp_instance = <<>>
    /\ closes = [b \in Backends |-> 0]
    /\ last = NoRequest
    /\ tasks = <<>>
    /\ input = NoInput

Init == InitWith({<<>>, <<"h">>})

(* a variant that closes both clients without testing them *)
cleanup_unconditional(self) == [b \in Backends |-> closes[b] + 1]

(* SonarrRadarrMCP.cleanup *)
cleanup(self) ==
    [b \in Backends |->
        closes[b] + (IF (IF b = "sonarr" THEN self.sonarr_client
                         ELSE self.radarr_client) # <<>> THEN 1 ELSE 0)]

(* server.main, up to serving: mcp = SonarrRadarrMCP() *)
Main ==
    /\ mode = "stdio" /\ phase = "new"
    /\ mcp' = <<SonarrRadarrMCP(env)>>
    /\ phase' = "up"
    /\ UNCHANGED <<env, mode, mcp_instance, closes, last, input, tasks>>

(* server.main, the finally clause *)
MainFinally ==
    /\ mode = "stdio" /\ phase = "up"
    /\ closes' = cleanup(mcp[1])
    /\ phase' = "down"
    /\ UNCHANGED <<env, mode, mcp, mcp_instance, last, input, tasks>>

(* http_server.startup *)
startup ==
    /\ mode = "http" /\ phase = "new"
    /\ mcp_instance' = <<SonarrRadarrMCP(env)>>
    /\ phase' = "up"
    /\ UNCHANGED <<env, mode, mcp, closes, last, input, tasks>>

(* http_server.shutdown *)
shutdown ==
    /\ mode = "http" /\ phase = "up"
    /\ closes' = IF mcp_instance # <<>> THEN cleanup(mcp_instance[1]) ELSE closes
    /\ phase' = "down"
    /\ UNCHANGED <<env, mode, mcp, mcp_instance, last, input, tasks>>

(* one tool invocation, served by the handler __init__ registered *)
CallTool ==
    /\ mode = "stdio" /\ phase = "up"
    /\ \E name \in ToolNames, arguments \in ArgumentBags :
         \E resps \in ResponseSeqs(ToolBackend(name), name) :
            last' = [transport |-> "tool", name |-> name,
                     arguments |-> arguments,
                     res |-> call_tool(mcp[1], name, arguments, Now, resps)]
    /\ UNCHANGED <<env, mode, phase, mcp, mcp_instance, closes, input, tasks>>

Served(path, res) ==
    /\ last' = [transport |-> "http", name |-> path, res |-> res]
    /\ UNCHANGED <<env, mode, phase, mcp, mcp_instance, closes, input, tasks>>

Serving == mode = "http" /\ phase \in {"new", "up"}

GetHealth == Serving /\ Served("/health", health)

GetReady == Serving /\ Served("/ready", readiness(mcp_instance))

Route(path, b, params, resps, res) ==
    /\ last' = [transport |-> "http", name |-> path, params |-> params,
                res |-> res]
    /\ UNCHANGED <<env, mode, phase, mcp, mcp_instance, closes, input, tasks>>

SonarrRecent ==
    /\ Serving
    /\ \E params \in QueryParams :
         \E resps \in ResponseSeqs("sonarr", "/api/sonarr/recent") :
            Route("/api/sonarr/recent", "sonarr", params, resps,
                  sonarr_recent_series(mcp_instance, params, Now, resps))

SonarrCalendar ==
    /\ Serving
    /\ \E params \in QueryParams :
         \E resps \in ResponseSeqs("sonarr", "/api/sonarr/calendar") :
            Route("/api/sonarr/calendar", "sonarr", params, resps,
                  sonarr_calendar(mcp_instance, params, Now, resps))

SonarrSearch ==
    /\ Serving
    /\ \E params \in QueryParams :
         \E resps \in ResponseSeqs("sonarr", "/api/sonarr/search") :
            Route("/api/sonarr/search", "sonarr", params, resps,
                  sonarr_search(mcp_instance, params, Now, resps))

SonarrStatus ==
    /\ Serving
    /\ \E params \in QueryParams :
         \E resps \in ResponseSeqs("sonarr", "/api/sonarr/status") :
            Route("/api/sonarr/status", "sonarr", params, resps,
                  sonarr_status(mcp_instance, params, Now, resps))

SonarrQueue ==
    /\ Serving
    /\ \E params \in QueryParams :
         \E resps \in ResponseSeqs("sonarr", "/api/sonarr/queue") :
            Route("/api/sonarr/queue", "sonarr", params, resps,
                  sonarr_queue(mcp_instance, params, Now, resps))

RadarrRecent ==
    /\ Serving
    /\ \E params \in QueryParams :
         \E resps \in ResponseSeqs("radarr", "/api/radarr/recent") :
            Route("/api/radarr/recent", "radarr", params, resps,
                  radarr_recent_movies(mcp_instance, params, Now, resps))

RadarrCalendar ==
    /\ Serving
    /\ \E params \in QueryParams :
         \E resps \in ResponseSeqs("radarr", "/api/radarr/calendar") :
            Route("/api/radarr/calendar", "radarr", params, resps,
                  radarr_calendar(mcp_instance, params, Now, resps))

RadarrSearch ==
    /\ Serving
    /\ \E params \in QueryParams :
         \E resps \in ResponseSeqs("radarr", "/api/radarr/search") :
            Route("/api/radarr/search", "radarr", params, resps,
                  radarr_search(mcp_instance, params, Now, resps))

RadarrStatus ==
    /\ Serving
    /\ \E params \in QueryParams :
         \E resps \in ResponseSeqs("radarr", "/api/radarr/status") :
            Route("/api/radarr/status", "radarr", params, resps,
                  radarr_status(mcp_instance, params, Now, resps))

RadarrQueue ==
    /\ Serving
    /\ \E params \in QueryParams :
         \E resps \in ResponseSeqs("radarr", "/api/radarr/queue") :
            Route("/api/radarr/queue", "radarr", params, resps,
                  radarr_queue(mcp_instance, params, Now, resps))

Next ==
    \/ Main \/ MainFinally \/ CallTool
    \/ startup \/ shutdown \/ GetHealth \/ GetReady
    \/ SonarrRecent \/ SonarrCalendar \/ SonarrSearch \/ SonarrStatus
    \/ SonarrQueue
    \/ RadarrRecent \/ RadarrCalendar \/ RadarrSearch \/ RadarrStatus
    \/ RadarrQueue

Spec == Init /\ [][Next]_vars

-----------------------------------------------------------------------------
(* Construction alone, over every environment of the bound                 *)

InitConfig == InitWith(Urls)

NextConfig == Main \/ MainFinally \/ startup \/ shutdown

SpecConfig == InitConfig /\ [][NextConfig]_vars

-----------------------------------------------------------------------------
(* recent(days) alone, over every collection of the bound.  The clients    *)
(* exist (both backends configured); the backend answers 200 with the      *)
(* collection drawn in the initial state.                                  *)

AddedStrings ==
    {[valid |-> TRUE, d |-> d, sep |-> f[1], h |-> h, z |-> f[2]] :
        d \in {8, 9}, h \in {0, 12},
        f \in {<<"T", FALSE>>, <<" ", FALSE>>, <<"T", TRUE>>}}

RecentEntity(i, a) ==
    [id |-> i, title |-> <<"A", "b">>, added |-> a, status |-> <<"ended">>,
     year |-> <<"2020">>, network |-> <<"HBO">>, studio |-> <<"A24">>,
     seasonCount |-> <<"2">>]

RecentCollections ==
    {[i \in 1..Len(as) |-> RecentEntity(i, as[i])] :
        as \in SeqsUpTo(AddedStrings, MaxRecentLen)}

InitRecent ==
    /\ env = [SONARR_URL |-> <<"h">>, SONARR_API_KEY |-> <<"k">>,
              RADARR_URL |-> <<"h">>, RADARR_API_KEY |-> <<"k">>]
    /\ mode = "stdio"
    /\ phase = "up"
    /\ mcp = <<SonarrRadarrMCP(env)>>
    /\ mcp_instance = <<>>
    /\ closes = [b \in Backends |-> 0]
    /\ last = NoRequest
    /\ tasks = <<>>
    /\ \E entities \in RecentCollections, days \in {1, 2} :
          input = [op |-> "recent", entities |-> entities, days |-> days,
                   now |-> Now]

Applied(name, res) ==
    /\ last = NoRequest
    /\ last' = [transport |-> "facade", name |-> name, res |-> res]
    /\ UNCHANGED <<env, mode, phase, mcp, mcp_instance, closes, input, tasks>>

RecentSeries ==
    Applied("get_recent_series",
            get_recent_series(mcp[1].sonarr_client[1], IntV(input.days),
                              input.now, OkResp(input.entities)))

RecentMovies ==
    Applied("get_recent_movies",
            get_recent_movies(mcp[1].radarr_client[1], IntV(input.days),
                              input.now, OkResp(input.entities)))

NextRecent == RecentSeries \/ RecentMovies

SpecRecent == InitRecent /\ [][NextRecent]_vars

-----------------------------------------------------------------------------
(* search(query) alone, over every collection of the bound                 *)

Titles == {<<"A", "b">>, <<"b">>}

Queries == {<<"a">>, <<"B">>, <<"a", "B">>}

SearchEntity(i, title) ==
    [id |-> i, title |-> title, status |-> <<"ended">>, year |-> <<"2020">>,
     seasonCount |-> <<"2">>]

SearchCollections ==
    {[i \in 1..Len(ts) |-> SearchEntity(i, ts[i])] :
        ts \in SeqsUpTo(Titles, MaxSearchLen)}

InitSearch ==
    /\ env = [SONARR_URL |-> <<"h">>, SONARR_API_KEY |-> <<"k">>,
              RADARR_URL |-> <<"h">>, RADARR_API_KEY |-> <<"k">>]
    /\ mode = "stdio"
    /\ phase = "up"
    /\ mcp = <<SonarrRadarrMCP(env)>>
    /\ mcp_instance = <<>>
    /\ closes = [b \in Backends |-> 0]
    /\ last = NoRequest
    /\ tasks = <<>>
    /\ \E entities \in SearchCollections, query \in Queries :
          input = [op |-> "search", entities |-> entities, query |-> query]

SearchSeries ==
    Applied("search_sonarr_series",
            search_sonarr_series(mcp[1].sonarr_client[1], StrV(input.query),
                                 OkResp(input.entities)))

SearchMovies ==
    Applied("search_radarr_movies",
            search_radarr_movies(mcp[1].radarr_client[1], StrV(input.query),
                                 OkResp(input.entities)))

NextSearch == SearchSeries \/ SearchMovies

SpecSearch == InitSearch /\ [][NextSearch]_vars

-----------------------------------------------------------------------------
(* recent(days) alone, over collections whose entities differ in the       *)
(* fields they carry: with and without the secondary attribute, with a     *)
(* naive or a Z-suffixed `added`, without `added`, with an unparsable one  *)

Unparsable == [valid |-> FALSE, d |-> 0, sep |-> "T", h |-> 0, z |-> FALSE]

(* an entity without network / studio *)
BareEntity(i, a) ==
    [id |-> i, title |-> <<"b">>, added |-> a, status |-> <<"ended">>,
     year |-> <<"2021">>, seasonCount |-> <<"1">>]

(* an entity without `added` *)
UndatedEntity(i) ==
    [id |-> i, title |-> <<"c">>, status |-> <<"ended">>, year |-> <<"2022">>]

FieldShapes ==
    {<<"full", Naive(9, 12)>>, <<"full", Naive(8, 12)>>,
     <<"bare", Naive(9, 12)>>, <<"bare", Naive(8, 12)>>,
     <<"full", Zulu(9, 12)>>, <<"full", Zulu(8, 12)>>,
     <<"full", Unparsable>>, <<"undated", Unparsable>>}

ShapedEntity(i, shape) ==
    IF shape[1] = "full" THEN RecentEntity(i, shape[2])
    ELSE IF shape[1] = "bare" THEN BareEntity(i, shape[2])
    ELSE UndatedEntity(i)

FieldCollections ==
    {[i \in 1..Len(ss) |-> ShapedEntity(i, ss[i])] :
        ss \in SeqsUpTo(FieldShapes, MaxRecentLen)}

InitFields ==
    /\ env = [SONARR_URL |-> <<"h">>, SONARR_API_KEY |-> <<"k">>,
              RADARR_URL |-> <<"h">>, RADARR_API_KEY |-> <<"k">>]
    /\ mode = "stdio"
    /\ phase = "up"
    /\ mcp = <<SonarrRadarrMCP(env)>>
    /\ mcp_instance = <<>>
    /\ closes = [b \in Backends |-> 0]
    /\ last = NoRequest
    /\ tasks = <<>>
    /\ \E entities \in FieldCollections, days \in {1, 2} :
          input = [op |-> "recent", entities |-> entities, days |-> days,
                   now |-> Now]

SpecFields == InitFields /\ [][NextRecent]_vars

-----------------------------------------------------------------------------
(* One invocation against configured backends, with the answers of the     *)
(* backend fixed in the initial state, so that what the caller gets can be *)
(* related to what the backend did.                                        *)

(* the route table of http_server.app *)
RouteHandler(path, inst, params, now, resps) ==
    CASE path = "/api/sonarr/recent" -> sonarr_recent_series(inst, params, now, resps)
      [] path = "/api/sonarr/calendar" -> sonarr_calendar(inst, params, now, resps)
      [] path = "/api/sonarr/search" -> sonarr_search(inst, params, now, resps)
      [] path = "/api/sonarr/status" -> sonarr_status(inst, params, now, resps)
      [] path = "/api/sonarr/queue" -> sonarr_queue(inst, params, now, resps)
      [] path = "/api/radarr/recent" -> radarr_recent_movies(inst, params, now, resps)
      [] path = "/api/radarr/calendar" -> radarr_calendar(inst, params, now, resps)
      [] path = "/api/radarr/search" -> radarr_search(inst, params, now, resps)
      [] path = "/api/radarr/status" -> radarr_status(inst, params, now, resps)
      [] path = "/api/radarr/queue" -> radarr_queue(inst, params, now, resps)

RoutePaths ==
    {"/api/sonarr/recent", "/api/sonarr/calendar", "/api/sonarr/search",
     "/api/sonarr/status", "/api/sonarr/queue",
     "/api/radarr/recent", "/api/radarr/calendar", "/api/radarr/search",
     "/api/radarr/status", "/api/radarr/queue"}

PathBackend(path) ==
    IF path \in {"/api/sonarr/recent", "/api/sonarr/calendar",
                 "/api/sonarr/search", "/api/sonarr/status",
                 "/api/sonarr/queue"}
      THEN "sonarr" ELSE "radarr"

ToolInputs ==
    UNION {{[op |-> "tool", name |-> name, arguments |-> arguments,
             resps |-> resps] :
               arguments \in ArgumentBags,
               resps \in ResponseSeqs(ToolBackend(name), name)} :
           name \in ToolNames}

RouteInputs ==
    UNION {{[op |-> "route", name |-> path, params |-> params,
             resps |-> resps] :
               params \in QueryParams,
               resps \in ResponseSeqs(PathBackend(path), path)} :
           path \in RoutePaths}

InitRemote ==
    /\ env = [SONARR_URL |-> <<"h">>, SONARR_API_KEY |-> <<"k">>,
              RADARR_URL |-> <<"h">>, RADARR_API_KEY |-> <<"k">>]
    /\ mode \in {"stdio", "http"}
    /\ phase = "up"
    /\ mcp = IF mode = "stdio" THEN <<SonarrRadarrMCP(env)>> ELSE <<>>
    /\ mcp_instance = IF mode = "http" THEN <<SonarrRadarrMCP(env)>> ELSE <<>>
    /\ closes = [b \in Backends |-> 0]
    /\ last = NoRequest
    /\ tasks = <<>>
    /\ input \in (IF mode = "stdio" THEN ToolInputs ELSE RouteInputs)

ToolInvoked ==
    /\ mode = "stdio" /\ last = NoRequest
    /\ last' = [transport |-> "tool", name |-> input.name,
                arguments |-> input.arguments,
                res |-> call_tool(mcp[1], input.name, input.arguments, Now,
                                  input.resps)]
    /\ UNCHANGED <<env, mode, phase, mcp, mcp_instance, closes, input, tasks>>

RouteInvoked ==
    /\ mode = "http" /\ last = NoRequest
    /\ last' = [transport |-> "http", name |-> input.name,
                params |-> input.params,
                res |-> RouteHandler(input.name, mcp_instance, input.params,
                                     Now, input.resps)]
    /\ UNCHANGED <<env, mode, phase, mcp, mcp_instance, closes, input, tasks>>

NextRemote == ToolInvoked \/ RouteInvoked

SpecRemote == InitRemote /\ [][NextRemote]_vars

-----------------------------------------------------------------------------
(* Requests in flight together.  A handler is a coroutine: it runs without *)
(* interruption up to its next `await` of the backend, and other handlers  *)
(* run while it waits.  Each step reads the server object as it is then.   *)

(* the handler of a request, run with the answers `resps` *)
Handle(req, resps) ==
    IF req.op = "tool"
      THEN call_tool(mcp[1], req.name, req.arguments, Now, resps)
      ELSE RouteHandler(req.name, mcp_instance, req.params, Now, resps)

(* a variant in which a handler forgets the clients once a request of its  *)
(* own has been answered with a failure                                    *)
AfterStep_dropping(inst, got) ==
    IF inst # <<>> /\ \E i \in DOMAIN got : got[i].kind # "ok"
      THEN <<[inst[1] EXCEPT !.sonarr_client = <<>>, !.radarr_client = <<>>]>>
      ELSE inst

(* the server object after a step of a handler: no handler assigns to it   *)
AfterStep(inst, got) == inst

(* where a handler stands once it has the answers `got`: waiting for the   *)
(* answer to its next request, or done.  The requests it has sent do not   *)
(* depend on answers it has not received.                                  *)
Resume(req, got) ==
    LET r == Handle(req, got \o <<ConnectResp, ConnectResp>>) IN
    IF Len(r.out) > Len(got)
      THEN [pc |-> "awaiting", got |-> got,
            sent |-> SubSeq(r.out, 1, Len(got) + 1), res |-> <<>>]
      ELSE [pc |-> "done", got |-> got, sent |-> r.out, res |-> <<r>>]

Idle == [pc |-> "idle", got |-> <<>>, sent |-> <<>>, res |-> <<>>]

StatusAnswers ==
    {<<OkResp([version |-> <<"4.0.1">>]),
       OkResp(<<[path |-> <<"/tv">>, freeSpace |-> 5 * MiB,
                 totalSpace |-> GiB]>>)>>,
     <<OkResp([version |-> <<"4.0.1">>]), ConnectResp>>,
     <<StatusResp(500), OkResp(<<>>)>>}

SearchAnswers == {<<OkResp(EntitiesNaive)>>, <<StatusResp(500)>>}

ConcurrentTools ==
    {[op |-> "tool", name |-> "sonarr_get_system_status",
      arguments |-> Bag(<<>>), resps |-> resps] : resps \in StatusAnswers}
    \cup {[op |-> "tool", name |-> "sonarr_search_series",
           arguments |-> Bag([query |-> StrV(<<"a">>)]), resps |-> resps] :
             resps \in SearchAnswers}
    \cup {[op |-> "tool", name |-> "sonarr_search_series",
           arguments |-> Bag(<<>>), resps |-> <<StatusResp(500)>>]}

ConcurrentRoutes ==
    {[op |-> "route", name |-> "/api/sonarr/status",
      params |-> <<>>, resps |-> resps] : resps \in StatusAnswers}
    \cup {[op |-> "route", name |-> "/api/sonarr/search",
           params |-> [query |-> <<"a">>], resps |-> resps] :
             resps \in SearchAnswers}
    \cup {[op |-> "route", name |-> "/api/sonarr/recent",
           params |-> [days |-> <<"x">>], resps |-> <<StatusResp(500)>>]}

InitConcurrent ==
    /\ env = [SONARR_URL |-> <<"h">>, SONARR_API_KEY |-> <<"k">>,
              RADARR_URL |-> <<>>, RADARR_API_KEY |-> <<>>]
    /\ mode \in {"stdio", "http"}
    /\ phase = "up"
    /\ mcp = IF mode = "stdio" THEN <<SonarrRadarrMCP(env)>> ELSE <<>>
    /\ mcp_instance = IF mode = "http" THEN <<SonarrRadarrMCP(env)>> ELSE <<>>
    /\ closes = [b \in Backends |-> 0]
    /\ last = NoRequest
    /\ input \in [1..MaxTasks ->
                    IF mode = "stdio" THEN ConcurrentTools
                    ELSE ConcurrentRoutes]
    /\ tasks = [i \in 1..MaxTasks |-> Idle]

(* a step of handler i that leaves it with the answers `got` *)
Step(i, got) ==
    /\ tasks' = [tasks EXCEPT ![i] = Resume(input[i], got)]
    /\ mcp' = AfterStep(mcp, got)
    /\ mcp_instance' = AfterStep(mcp_instance, got)
    /\ UNCHANGED <<env, mode, phase, closes, last, input>>

(* the request arrives: its handler runs up to its first await *)
Begin ==
    \E i \in DOMAIN tasks :
        /\ tasks[i].pc = "idle"
        /\ Step(i, <<>>)

(* the backend answers the request handler i waits for: it runs on *)
Answer ==
    \E i \in DOMAIN tasks :
        /\ tasks[i].pc = "awaiting"
        /\ Step(i, Append(tasks[i].got,
                          input[i].resps[Len(tasks[i].got) + 1]))

NextConcurrent == Begin \/ Answer

SpecConcurrent == InitConcurrent /\ [][NextConcurrent]_vars

-----------------------------------------------------------------------------
(* Properties                                                              *)

ApiRoutes == {"/api/sonarr/recent", "/api/sonarr/calendar",
              "/api/sonarr/search", "/api/sonarr/status", "/api/sonarr/queue",
              "/api/radarr/recent", "/api/radarr/calendar",
              "/api/radarr/search", "/api/radarr/status", "/api/radarr/queue"}

RouteBackend(path) ==
    IF path \in {"/api/sonarr/recent", "/api/sonarr/calendar",
                 "/api/sonarr/search", "/api/sonarr/status",
                 "/api/sonarr/queue"}
      THEN "sonarr" ELSE "radarr"

KnownTools == SonarrTools \cup RadarrTools

(* the server object of the running mode, <<>> while there is none *)
Instance == IF mode = "stdio" THEN mcp ELSE mcp_instance

HasClient(inst, b) ==
    /\ inst # <<>>
    /\ (IF b = "sonarr" THEN inst[1].sonarr_client ELSE inst[1].radarr_client)
       # <<>>

IsTool == last.transport = "tool"
IsRoute == last.transport = "http" /\ last.name \in ApiRoutes

(* C1: an operation of a backend whose client is absent is answered with   *)
(* the 'not configured' outcome (the fixed text from call_tool, 503 with   *)
(* the error body from an HTTP route) and issues no outbound request; no   *)
(* request of any invocation goes to a backend without a client.           *)
C1_UnconfiguredRejected ==
    /\ (IsTool /\ last.name \in KnownTools
              /\ ~HasClient(mcp, ToolBackend(last.name)))
         => /\ last.res.text =
                 (IF last.name \in SonarrTools
                    THEN <<"Sonarr is not configured">>
                    ELSE <<"Radarr is not configured">>)
            /\ last.res.out = <<>>
    /\ (IsRoute /\ ~HasClient(mcp_instance, RouteBackend(last.name)))
         => /\ ~last.res.raised
            /\ last.res.status = 503
            /\ last.res.body =
                 [key |-> "error",
                  value |-> IF RouteBackend(last.name) = "sonarr"
                              THEN <<"Sonarr not configured">>
                              ELSE <<"Radarr not configured">>]
            /\ last.res.out = <<>>
    /\ (IsTool \/ IsRoute)
         => \A i \in 1..Len(last.res.out) :
               HasClient(Instance, last.res.out[i].to)

C1_Witness ==
    /\ IsTool /\ last.name = "radarr_refresh_movie"
    /\ ~last.arguments.isNone /\ Has(last.arguments.d, "movie_id")
    /\ HasClient(mcp, "sonarr") /\ ~HasClient(mcp, "radarr")
    /\ last.res.text = <<"Radarr is not configured">>

ServiceNames == Backends \cup {"lidarr", "Sonarr", ""}

ConfigUrl(c, b) == IF b = "sonarr" THEN c.sonarr_url ELSE c.radarr_url
ConfigKey(c, b) == IF b = "sonarr" THEN c.sonarr_api_key ELSE c.radarr_api_key

(* C2: validate_service(service) is True exactly when service is one of    *)
(* the two backends and both its URL and its API key are non-empty, and    *)
(* after construction a backend's client exists exactly in that case.      *)
C2_ConfiguredIff ==
    Instance # <<>> =>
      LET c == Instance[1].config IN
      /\ \A s \in ServiceNames :
            validate_service(c, s) <=>
              (s \in Backends /\ Len(ConfigUrl(c, s)) > 0
                              /\ Len(ConfigKey(c, s)) > 0)
      /\ \A b \in Backends :
            HasClient(Instance, b) <=>
              (Len(ConfigUrl(c, b)) > 0 /\ Len(ConfigKey(c, b)) > 0)

C2_Witness ==
    /\ Instance # <<>>
    /\ HasClient(Instance, "sonarr")
    /\ ~HasClient(Instance, "radarr")
    /\ Instance[1].config.radarr_url # <<>>
    /\ Instance[1].config.radarr_api_key = <<>>

IsRecent ==
    last.transport = "facade"
    /\ last.name \in {"get_recent_series", "get_recent_movies"}

FacadeBackend ==
    IF last.name \in {"get_recent_series", "search_sonarr_series"}
      THEN "sonarr" ELSE "radarr"

(* the instant an `added` string denotes, in hours *)
AddedInstant(e) == e.added.d * 24 + e.added.h

RecentCutoff == (input.now.d * 24 + input.now.h) - input.days * 24

RecentKept ==
    {i \in 1..Len(input.entities) :
        AddedInstant(input.entities[i]) > RecentCutoff}

(* the orders of the kept entities that are descending in added time *)
DescendingOrders ==
    {L \in [1..Cardinality(RecentKept) -> RecentKept] :
        /\ \A j, k \in DOMAIN L : j # k => L[j] # L[k]
        /\ \A j, k \in DOMAIN L :
              j < k => AddedInstant(input.entities[L[j]])
                         >= AddedInstant(input.entities[L[k]])}

(* C3: recent(days) renders exactly the entities added strictly after      *)
(* now - days, most recently added first.                                  *)
C3_RecentStrictDescending ==
    IsRecent =>
      /\ last.res.ok
      /\ \E L \in DescendingOrders :
            last.res.val =
              RenderRecent([j \in DOMAIN L |->
                              RecentItem(input.entities[L[j]], FacadeBackend)],
                           input.days, FacadeBackend)

IsSearch ==
    last.transport = "facade"
    /\ last.name \in {"search_sonarr_series", "search_radarr_movies"}

EqualIgnoringCase(c1, c2) ==
    c1 = c2 \/ {c1, c2} = {"A", "a"} \/ {c1, c2} = {"B", "b"}

TitleContains(title, q) ==
    \E i \in 0..(Len(title) - Len(q)) :
        \A j \in 1..Len(q) : EqualIgnoringCase(title[i + j], q[j])

SearchMatches ==
    {i \in 1..Len(input.entities) :
        TitleContains(input.entities[i].title, input.query)}

Min(a, b) == IF a < b THEN a ELSE b

(* the elements of a set of positions, in increasing order *)
RECURSIVE Ascending(_)
Ascending(S) ==
    IF S = {} THEN <<>>
    ELSE LET m == CHOOSE i \in S : \A j \in S : i <= j
         IN <<m>> \o Ascending(S \ {m})

(* C4: search(query) with a non-empty query matches the entities whose     *)
(* title contains the query case-insensitively, renders the first          *)
(* min(10, matches) of them in collection order, and answers the fixed     *)
(* 'not found' sentence when nothing matches.                              *)
C4_SearchFirstTen ==
    IsSearch =>
      LET matches == SearchMatches
          n == Min(10, Cardinality(matches))
          shown == SubSeq(Ascending(matches), 1, n)
          text == last.res.val
      IN
      /\ last.res.ok
      /\ IF matches = {}
           THEN text =
                  (IF FacadeBackend = "sonarr"
                     THEN <<"No series found matching '">>
                     ELSE <<"No movies found matching '">>)
                  \o input.query \o <<"'.">>
           ELSE /\ text =
                     (IF FacadeBackend = "sonarr"
                        THEN <<"Series matching '">>
                        ELSE <<"Movies matching '">>)
                     \o input.query \o <<"':\n\n">>
                     \o Flatten([k \in 1..n |->
                           RenderMatch(input.entities[shown[k]],
                                       FacadeBackend)])
                /\ Cardinality({k \in DOMAIN text : text[k] = "- "}) = n

C4_Witness ==
    /\ IsSearch /\ last.res.ok
    /\ Cardinality(SearchMatches) > 10
    /\ 1 \notin SearchMatches
    /\ input.query = <<"a">>

SearchTools == {"sonarr_search_series", "radarr_search_movies"}
SearchRoutes == {"/api/sonarr/search", "/api/radarr/search"}

(* the last request was a search with an empty query, for a backend that   *)
(* has a client                                                            *)
EmptyQueryTool ==
    /\ IsTool /\ last.name \in SearchTools
    /\ HasClient(mcp, ToolBackend(last.name))
    /\ ~last.arguments.isNone
    /\ Has(last.arguments.d, "query")
    /\ last.arguments.d.query = StrV(<<>>)

EmptyQueryRoute ==
    /\ IsRoute /\ last.name \in SearchRoutes
    /\ Get(last.params, "query", <<>>) = <<>>
    /\ ~last.res.raised /\ last.res.status # 503

(* C5: a search with an empty query is rejected with a client error and    *)
(* no outbound request, on the HTTP routes and through call_tool alike.    *)
C5_EmptyQueryRejected ==
    /\ EmptyQueryRoute =>
         /\ last.res.status = 400
         /\ last.res.body.key = "error"
         /\ last.res.out = <<>>
    /\ EmptyQueryTool =>
         /\ last.res.text[1] = "Error: "
         /\ last.res.out = <<>>

(* C6: every request to an /api route ends in 200 with a result body, 503  *)
(* or 400 or 500 with an error body; 400 only for a search without query.  *)
C6_FourResponses ==
    IsRoute =>
      /\ ~last.res.raised
      /\ \/ last.res.status = 200 /\ last.res.body.key = "result"
         \/ last.res.status = 503 /\ last.res.body.key = "error"
         \/ /\ last.res.status = 400 /\ last.res.body.key = "error"
            /\ last.name \in SearchRoutes
            /\ Get(last.params, "query", <<>>) = <<>>
         \/ last.res.status = 500 /\ last.res.body.key = "error"

(* C7: call_tool always returns a text and never raises; the text starts   *)
(* with 'Unknown tool: ' exactly when the operation name is unknown, and   *)
(* is then that prefix followed by the name.                               *)
C7_AlwaysText ==
    IsTool =>
      /\ ~last.res.raised
      /\ Len(last.res.text) > 0
      /\ (last.name \notin KnownTools
            => last.res.text = <<"Unknown tool: ", last.name>>)
      /\ (last.name \in KnownTools => last.res.text[1] # "Unknown tool: ")
      /\ (last.res.text[1] = "Unknown tool: "
            => /\ last.res.text[1] # "Error: "
               /\ last.res.text \notin {<<"Sonarr is not configured">>,
                                        <<"Radarr is not configured">>})

C7_Witness ==
    /\ IsTool /\ last.name = "sonarr_get_queue"
    /\ last.res.text = <<"Error: ", "'", "series", "'">>
    /\ Len(last.res.out) = 1

RequiredKey(name) ==
    CASE name \in SearchTools -> "query"
      [] name \in {"sonarr_refresh_series", "sonarr_search_episodes"} -> "series_id"
      [] OTHER -> "movie_id"

ToolsWithRequired ==
    SearchTools \cup {"sonarr_refresh_series", "sonarr_search_episodes",
                      "radarr_refresh_movie", "radarr_search_movie"}

RECURSIVE Joined(_)
Joined(text) == IF text = <<>> THEN "" ELSE Head(text) \o Joined(Tail(text))

(* what call_tool answers when the backend fails: non-2xx, or no connection *)
RemoteFailureTexts ==
    {"Error: API request failed: " \o Str(c) : c \in 300..599}
    \cup {"Error: All connection attempts failed"}

MissingRequired ==
    /\ IsTool /\ last.name \in ToolsWithRequired
    /\ \/ last.arguments.isNone
       \/ ~Has(last.arguments.d, RequiredKey(last.name))

(* C8: an invocation without its required argument issues no outbound      *)
(* request and, for a backend that has a client, is answered with an       *)
(* error text naming the missing argument, which is none of the texts a    *)
(* non-2xx or a transport failure produces.                                *)
C8_MissingArgument ==
    MissingRequired =>
      /\ last.res.out = <<>>
      /\ ~last.res.raised
      /\ Joined(last.res.text) \notin RemoteFailureTexts
      /\ HasClient(mcp, ToolBackend(last.name)) =>
           Joined(last.res.text) =
             (IF last.arguments.isNone
                THEN "Error: 'NoneType' object is not subscriptable"
                ELSE "Error: '" \o RequiredKey(last.name) \o "'")

C8_Witness ==
    /\ MissingRequired /\ last.name = "sonarr_search_episodes"
    /\ ~last.arguments.isNone
    /\ HasClient(mcp, "sonarr")
    /\ Joined(last.res.text) = "Error: 'series_id'"

CommandTools == {"sonarr_refresh_series", "sonarr_search_episodes",
                 "radarr_refresh_movie", "radarr_search_movie"}

CommandName(name) ==
    CASE name = "sonarr_refresh_series" -> "RefreshSeries"
      [] name = "sonarr_search_episodes" -> "SeriesSearch"
      [] name = "radarr_refresh_movie" -> "RefreshMovie"
      [] OTHER -> "MoviesSearch"

Confirmation(name) ==
    CASE name = "sonarr_refresh_series" -> "Refresh triggered for series ID "
      [] name = "sonarr_search_episodes" -> "Episode search triggered for series ID "
      [] name = "radarr_refresh_movie" -> "Refresh triggered for movie ID "
      [] OTHER -> "Search triggered for movie ID "

CommandInvoked ==
    /\ IsTool /\ last.name \in CommandTools
    /\ HasClient(mcp, ToolBackend(last.name))
    /\ ~last.arguments.isNone
    /\ Has(last.arguments.d, RequiredKey(last.name))

(* C9: refresh(id) and triggerSearch(id) issue exactly one request, a POST *)
(* to the command endpoint of their backend, carrying seriesId = id for a  *)
(* series and movieIds = [id] for a movie, and on success answer the       *)
(* confirmation sentence ending in that id.                                *)
C9_CommandPost ==
    CommandInvoked =>
      LET id == last.arguments.d[RequiredKey(last.name)]
          out == last.res.out
      IN
      /\ Len(out) = 1
      /\ out[1].method = "POST"
      /\ out[1].endpoint = "command"
      /\ out[1].to = ToolBackend(last.name)
      /\ out[1].payload =
           (IF last.name \in SonarrTools
              THEN [name |-> CommandName(last.name), seriesId |-> id]
              ELSE [name |-> CommandName(last.name), movieIds |-> <<id>>])
      /\ last.res.text[1] # "Error: "
           => Joined(last.res.text) = Confirmation(last.name) \o Str(id.n)

C9_Witness ==
    /\ CommandInvoked /\ last.name = "radarr_refresh_movie"
    /\ Joined(last.res.text) = "Refresh triggered for movie ID 6"

ReadyExpected(inst) ==
    IF inst = <<>>
      THEN [status |-> 503, body |-> [status |-> "not ready"]]
      ELSE [status |-> 200,
            body |-> [status |-> "ready",
                      sonarr_configured |-> HasClient(inst, "sonarr"),
                      radarr_configured |-> HasClient(inst, "radarr")]]

(* C10: every /ready request is answered 503 while there is no server      *)
(* instance and 'ready' with the two flags telling which clients exist     *)
(* once there is one; no step changes the instance once it exists; every   *)
(* /health request is answered 'healthy', whatever the state.              *)
C10_Readiness ==
    [][/\ (last' # last /\ last'.transport = "http" /\ last'.name = "/ready")
            => /\ ~last'.res.raised
               /\ last'.res.status = ReadyExpected(mcp_instance).status
               /\ last'.res.body = ReadyExpected(mcp_instance).body
       /\ (last' # last /\ last'.transport = "http" /\ last'.name = "/health")
            => /\ ~last'.res.raised
               /\ last'.res.status = 200
               /\ last'.res.body = [status |-> "healthy"]
       /\ mcp_instance # <<>> => mcp_instance' = mcp_instance
       /\ last' # last => mcp_instance' = mcp_instance]_vars

C10_Witness ==
    /\ last.transport = "http" /\ last.name = "/ready"
    /\ last.res.status = 200
    /\ last.res.body.sonarr_configured
    /\ ~last.res.body.radarr_configured


-----------------------------------------------------------------------------
(* Properties of recent(days) over the fields of the entities              *)

HasAdded(e) == Has(e, "added")

(* `added` is there and is an ISO-8601 string, with or without the Z *)
WellDated(e) == HasAdded(e) /\ e.added.valid

HasZ(e) == WellDated(e) /\ e.added.z

SecondaryKey == IF FacadeBackend = "sonarr" THEN "network" ELSE "studio"

(* the bullet the specification describes for a kept entity *)
ExpectedBullet(e) ==
    LET item == RecentItem(e, FacadeBackend) IN
    IF FacadeBackend = "sonarr"
      THEN RenderSeries([item EXCEPT !.network =
                            Get(e, "network", <<"Unknown">>)])
      ELSE RenderMovie([item EXCEPT !.studio =
                            Get(e, "studio", <<"Unknown">>)])

(* `block` is a contiguous part of `text` *)
Renders(text, block) ==
    \E k \in 1..(Len(text) - Len(block) + 1) :
        SubSeq(text, k, k + Len(block) - 1) = block

(* C11: on a collection of well-dated entities, recent() succeeds and      *)
(* renders every kept entity, one that lacks its secondary attribute       *)
(* (network / studio) with the text 'Unknown' in that field.               *)
C11_UnknownSecondary ==
    (IsRecent /\ \A i \in DOMAIN input.entities :
                     WellDated(input.entities[i]) /\ ~HasZ(input.entities[i]))
      => /\ last.res.ok
         /\ \A i \in RecentKept :
               Renders(last.res.val, ExpectedBullet(input.entities[i]))


(* the bullet the code builds for a kept entity *)
Bullet(e) ==
    IF FacadeBackend = "sonarr" THEN RenderSeries(RecentItem(e, "sonarr"))
    ELSE RenderMovie(RecentItem(e, "radarr"))

(* C14: on a collection of well-dated entities of which some carry a       *)
(* trailing 'Z', recent() completes, and each Z-suffixed entity is         *)
(* rendered exactly when its instant, read as UTC, is strictly after       *)
(* now - days.                                                             *)
C14_ZuluAccepted ==
    (IsRecent /\ (\A i \in DOMAIN input.entities : WellDated(input.entities[i]))
              /\ (\E i \in DOMAIN input.entities : HasZ(input.entities[i])))
      => /\ last.res.ok
         /\ \A i \in DOMAIN input.entities :
               HasZ(input.entities[i])
                 => (Renders(last.res.val, Bullet(input.entities[i]))
                       <=> i \in RecentKept)

(* the entities that recent() can filter without raising *)
Filterable(e) == WellDated(e) /\ ~HasZ(e)

IllDated == {i \in DOMAIN input.entities : ~WellDated(input.entities[i])}

(* the first entity the loop cannot filter *)
FirstUnfilterable ==
    CHOOSE i \in DOMAIN input.entities :
        /\ ~Filterable(input.entities[i])
        /\ \A j \in 1..(i - 1) : Filterable(input.entities[j])

(* C15: when some entity of the collection has no `added` or one that does *)
(* not parse, recent() ends in an error for both backends, wherever the    *)
(* entity sits: no text is returned, and when that entity is the first one *)
(* the loop cannot filter, the error is the one of reading its `added`.    *)
C15_IllDatedFailsLoudly ==
    (IsRecent /\ IllDated # {})
      => /\ ~last.res.ok
         /\ "val" \notin DOMAIN last.res
         /\ FirstUnfilterable \in IllDated
              => last.res.err =
                   (IF HasAdded(input.entities[FirstUnfilterable])
                      THEN IsoFormatMsg ELSE KeyError("added"))

C15_Witness ==
    /\ IsRecent /\ last.name = "get_recent_movies"
    /\ Len(input.entities) = 3
    /\ IllDated = {3}
    /\ Filterable(input.entities[1])
    /\ AddedInstant(input.entities[1]) > RecentCutoff
    /\ Filterable(input.entities[2])
    /\ ~last.res.ok /\ last.res.err = KeyError("added")

-----------------------------------------------------------------------------
(* Properties of calendar(days)                                            *)

CalendarTools == {"sonarr_get_calendar", "radarr_get_calendar"}
CalendarRoutes == {"/api/sonarr/calendar", "/api/radarr/calendar"}

DefaultDays(b) == IF b = "sonarr" THEN 7 ELSE 30

(* the invocation queried the window [now, now + n days] with one GET *)
QueriedWindow(n) ==
    /\ Len(last.res.out) = 1
    /\ last.res.out[1].method = "GET"
    /\ last.res.out[1].endpoint = "calendar"
    /\ last.res.out[1].payload =
         [start |-> Now.d * 24 + Now.h, end |-> Now.d * 24 + Now.h + n * 24]

CalendarTool ==
    /\ IsTool /\ last.name \in CalendarTools
    /\ HasClient(mcp, ToolBackend(last.name))
    /\ ~last.arguments.isNone

(* a calendar request that passed the route's configuration check *)
CalendarRoute ==
    /\ IsRoute /\ last.name \in CalendarRoutes
    /\ ~last.res.raised /\ last.res.status # 503

(* C12: with days omitted, calendar queries 7 days for the series backend  *)
(* and 30 days for the movie backend, on both transports; with days given  *)
(* it queries that many; the window is start = now, end = start + days.    *)
C12_CalendarDefaults ==
    /\ (CalendarTool /\ ~Has(last.arguments.d, "days"))
         => QueriedWindow(DefaultDays(ToolBackend(last.name)))
    /\ (CalendarRoute /\ ~Has(last.params, "days"))
         => QueriedWindow(DefaultDays(RouteBackend(last.name)))
    /\ (CalendarTool /\ Has(last.arguments.d, "days")
                     /\ last.arguments.d["days"] = IntV(1))
         => QueriedWindow(1)
    /\ (CalendarRoute /\ Has(last.params, "days")
                      /\ last.params["days"] = <<"1">>)
         => QueriedWindow(1)

C12_Witness ==
    /\ CalendarRoute /\ last.name = "/api/radarr/calendar"
    /\ ~Has(last.params, "days")
    /\ ~last.res.raised /\ last.res.status = 200
    /\ last.res.out[1].payload.end = last.res.out[1].payload.start + 30 * 24


-----------------------------------------------------------------------------
(* Properties of the client lifecycle                                      *)

ClientsOf(inst) ==
    IF inst = <<>> THEN [b \in Backends |-> <<>>]
    ELSE [b \in Backends |->
            IF b = "sonarr" THEN inst[1].sonarr_client
            ELSE inst[1].radarr_client]

(* what holds of the clients in every state of a run *)
LifecycleState ==
    /\ (phase = "new") = (Instance = <<>>)
    /\ \A b \in Backends :
          /\ Len(ClientsOf(Instance)[b]) <= 1
          /\ Instance # <<>> =>
                (HasClient(Instance, b) <=>
                   (Len(ConfigUrl(Instance[1].config, b)) > 0
                    /\ Len(ConfigKey(Instance[1].config, b)) > 0))
          /\ closes[b] =
               (IF phase = "down" /\ HasClient(Instance, b) THEN 1 ELSE 0)

(* what holds of every step of a run *)
LifecycleStep ==
    /\ (mcp' # mcp \/ mcp_instance' # mcp_instance)
          => /\ phase = "new" /\ phase' = "up"
             /\ last' = last /\ closes' = closes
    /\ closes' # closes
          => /\ phase = "up" /\ phase' = "down"
             /\ last' = last
    /\ last' # last
          => /\ mcp' = mcp /\ mcp_instance' = mcp_instance
             /\ closes' = closes /\ phase' = phase

(* C13: a client is created only by the one startup step, exactly for the  *)
(* configured backends; a request creates, replaces and closes no client;  *)
(* the one shutdown step closes every existing client once and none for    *)
(* an unconfigured backend.                                                *)
C13_ClientLifecycle ==
    [][LifecycleState /\ LifecycleState' /\ LifecycleStep]_vars

C13_Witness ==
    /\ phase = "down"
    /\ closes = [b \in Backends |-> IF b = "sonarr" THEN 1 ELSE 0]
    /\ IsRoute /\ ~last.res.raised /\ last.res.status = 200



-----------------------------------------------------------------------------
(* Properties of the order of the rejection checks                         *)

UnconfiguredTool ==
    /\ IsTool /\ last.name \in KnownTools
    /\ ~HasClient(mcp, ToolBackend(last.name))

UnconfiguredRoute ==
    /\ IsRoute
    /\ ~HasClient(mcp_instance, RouteBackend(last.name))

(* the query is absent or empty *)
ToolLacksQuery ==
    \/ last.arguments.isNone
    \/ ~Has(last.arguments.d, "query")
    \/ last.arguments.d["query"] = StrV(<<>>)

AnsweredNotConfigured ==
    IF IsTool
      THEN /\ ~last.res.raised
           /\ Joined(last.res.text) =
                (IF ToolBackend(last.name) = "sonarr"
                   THEN "Sonarr is not configured"
                   ELSE "Radarr is not configured")
      ELSE /\ ~last.res.raised
           /\ last.res.status = 503
           /\ last.res.body.key = "error"
           /\ Joined(last.res.body.value) =
                (IF RouteBackend(last.name) = "sonarr"
                   THEN "Sonarr not configured"
                   ELSE "Radarr not configured")

(* C19: a search of an unconfigured backend that also lacks its query is   *)
(* answered 'not configured' (503 on a route), never with the missing      *)
(* parameter outcome; and an unconfigured backend's operation gives that   *)
(* answer whatever the argument bag is, also one that cannot be read (no   *)
(* bag at all, a days parameter that is no number).                        *)
C19_ConfigurationFirst ==
    /\ (UnconfiguredTool /\ last.name \in SearchTools /\ ToolLacksQuery)
          => AnsweredNotConfigured
    /\ (UnconfiguredRoute /\ last.name \in SearchRoutes
                          /\ Get(last.params, "query", <<>>) = <<>>)
          => AnsweredNotConfigured /\ last.res.status # 400
    /\ (UnconfiguredTool /\ last.arguments.isNone) => AnsweredNotConfigured
    /\ (UnconfiguredRoute /\ Has(last.params, "days")
                          /\ last.params["days"] = <<"x">>)
          => AnsweredNotConfigured

C19_Witness ==
    /\ IsRoute /\ last.name = "/api/sonarr/search"
    /\ mcp_instance # <<>> /\ HasClient(mcp_instance, "radarr")
    /\ ~HasClient(mcp_instance, "sonarr")
    /\ last.params = <<>>
    /\ last.res.status = 503

-----------------------------------------------------------------------------
(* Properties of one invocation and the answers of its backend             *)

StatusOps == {"sonarr_get_system_status", "radarr_get_system_status",
              "/api/sonarr/status", "/api/radarr/status"}

DaysOps == {"sonarr_get_recent_series", "radarr_get_recent_movies",
            "/api/sonarr/recent", "/api/radarr/recent"}
           \cup CalendarTools \cup CalendarRoutes

OpBackend == IF IsTool THEN ToolBackend(last.name) ELSE RouteBackend(last.name)

(* the invocation gets past what is done before the request is sent: a    *)
(* known operation, the argument bag it reads there with its required      *)
(* argument, days a number                                                 *)
ReachesBackend ==
    \/ /\ IsTool /\ last.name \in KnownTools
       /\ last.name \in ToolsWithRequired \cup DaysOps
            => ~last.arguments.isNone
       /\ last.name \in ToolsWithRequired
            => Has(last.arguments.d, RequiredKey(last.name))
       /\ (last.name \in CalendarTools /\ Has(last.arguments.d, "days"))
            => last.arguments.d["days"].t = "int"
    \/ /\ IsRoute
       /\ (last.name \in DaysOps /\ Has(last.params, "days"))
            => /\ last.params["days"] # <<>>
               /\ \A i \in DOMAIN last.params["days"] :
                      IsDigit(last.params["days"][i])
       /\ last.name \in SearchRoutes
            => Get(last.params, "query", <<>>) # <<>>

Failed(resp) == resp.kind # "ok"

(* str(e) of the exception APIClient raises for a failed request *)
FailureText(resp) ==
    IF resp.kind = "status" THEN "API request failed: " \o Str(resp.code)
    ELSE IF resp.kind = "connect" THEN "All connection attempts failed"
    ELSE "Expecting value: line 1 column 1 (char 0)"

(* the failure is what the caller is told *)
Surfaced(resp) ==
    IF IsTool
      THEN Joined(last.res.text) = "Error: " \o FailureText(resp)
      ELSE /\ ~last.res.raised /\ last.res.status = 500
           /\ last.res.body.key = "error"
           /\ Joined(last.res.body.value) = FailureText(resp)

(* C16: an invocation that reaches its backend issues exactly one request, *)
(* status two (system/status, then diskspace); each is attempted once; the *)
(* first failed request is the last one of the invocation and its failure  *)
(* is what the caller gets.  Any other invocation issues none.             *)
C16_SingleAttempt ==
    (IsTool \/ IsRoute) =>
      LET out == last.res.out
          resps == input.resps
      IN
      IF ~ReachesBackend THEN out = <<>>
      ELSE
        /\ IF last.name \in StatusOps
             THEN [i \in DOMAIN out |-> out[i].endpoint] =
                    (IF Failed(resps[1]) THEN <<"system/status">>
                     ELSE <<"system/status", "diskspace">>)
             ELSE Len(out) = 1
        /\ \A i \in DOMAIN out : out[i].to = OpBackend
        /\ \A i \in DOMAIN out : i < Len(out) => ~Failed(resps[i])
        /\ Failed(resps[Len(out)]) => Surfaced(resps[Len(out)])

C16_Witness ==
    /\ IsTool /\ last.name = "sonarr_get_system_status"
    /\ Len(last.res.out) = 2
    /\ input.resps[2] = ConnectResp
    /\ Joined(last.res.text) = "Error: All connection attempts failed"


(* the names an operation goes by: the tool or route invoked, the facade   *)
(* method behind it and the operation of the specification                 *)
OperationLabels(name) ==
    {name}
    \cup (CASE name \in {"sonarr_get_recent_series", "/api/sonarr/recent"} ->
                 {"get_recent_series", "recent"}
            [] name \in {"radarr_get_recent_movies", "/api/radarr/recent"} ->
                 {"get_recent_movies", "recent"}
            [] name \in {"sonarr_get_calendar", "/api/sonarr/calendar"} ->
                 {"get_sonarr_calendar", "calendar"}
            [] name \in {"radarr_get_calendar", "/api/radarr/calendar"} ->
                 {"get_radarr_calendar", "calendar"}
            [] name \in {"sonarr_search_series", "/api/sonarr/search"} ->
                 {"search_sonarr_series", "search"}
            [] name \in {"radarr_search_movies", "/api/radarr/search"} ->
                 {"search_radarr_movies", "search"}
            [] name \in {"sonarr_get_system_status", "/api/sonarr/status"} ->
                 {"get_sonarr_status", "status"}
            [] name \in {"radarr_get_system_status", "/api/radarr/status"} ->
                 {"get_radarr_status", "status"}
            [] name \in {"sonarr_get_queue", "/api/sonarr/queue"} ->
                 {"get_sonarr_queue", "queue"}
            [] name \in {"radarr_get_queue", "/api/radarr/queue"} ->
                 {"get_radarr_queue", "queue"}
            [] name = "sonarr_refresh_series" ->
                 {"refresh_sonarr_series", "refresh", "RefreshSeries"}
            [] name = "radarr_refresh_movie" ->
                 {"refresh_radarr_movie", "refresh", "RefreshMovie"}
            [] name = "sonarr_search_episodes" ->
                 {"search_sonarr_episodes", "triggerSearch", "SeriesSearch"}
            [] name = "radarr_search_movie" ->
                 {"search_radarr_movie", "triggerSearch", "MoviesSearch"}
            [] OTHER -> {})

(* some request of the invocation was answered with a failure *)
ClientFailed ==
    /\ (IsTool \/ IsRoute) /\ ReachesBackend
    /\ \E i \in DOMAIN last.res.out : Failed(input.resps[i])

(* the message the caller gets, piece by piece *)
CallerMessage ==
    IF IsTool THEN last.res.text ELSE last.res.body.value

(* C17: when a request of the invocation fails, the message that reaches   *)
(* the caller names the operation that failed.                             *)
C17_FailureNamesOperation ==
    ClientFailed =>
      \E i \in DOMAIN CallerMessage :
          CallerMessage[i] \in OperationLabels(last.name)



CommandCall == IsTool /\ last.name \in CommandTools

Confirmed == last.res.text[1] = Confirmation(last.name)

(* C20: refresh and triggerSearch answer their confirmation sentence only  *)
(* when the command POST was sent and answered successfully; when the POST *)
(* fails (no connection, a non-2xx status, an undecodable body) the        *)
(* invocation ends in the error of that failure and never in the sentence. *)
C20_ConfirmationAfterSuccess ==
    CommandCall =>
      /\ Confirmed =>
           /\ Len(last.res.out) = 1
           /\ last.res.out[1].method = "POST"
           /\ last.res.out[1].endpoint = "command"
           /\ ~Failed(input.resps[1])
      /\ (ReachesBackend /\ Failed(input.resps[1])) =>
           /\ ~Confirmed
           /\ Joined(last.res.text) =
                "Error: " \o FailureText(input.resps[1])
      /\ (ReachesBackend /\ ~Failed(input.resps[1])) => Confirmed

C20_Witness ==
    /\ CommandCall /\ last.name = "radarr_search_movie"
    /\ input.resps[1] = StatusResp(500)
    /\ Len(last.res.out) = 1 /\ last.res.out[1].method = "POST"
    /\ Joined(last.res.text) = "Error: API request failed: 500"

-----------------------------------------------------------------------------
(* Properties of requests in flight together                               *)

(* what request i produces when it is served alone, with its own answers,  *)
(* by the server as it was constructed                                     *)
Alone(i) ==
    IF input[i].op = "tool"
      THEN call_tool(SonarrRadarrMCP(env), input[i].name, input[i].arguments,
                     Now, input[i].resps)
      ELSE RouteHandler(input[i].name, <<SonarrRadarrMCP(env)>>,
                        input[i].params, Now, input[i].resps)

IsPrefix(p, q) == Len(p) <= Len(q) /\ p = SubSeq(q, 1, Len(p))

(* C18: in every interleaving of the steps of requests in flight together, *)
(* a step of one request changes neither the server object (clients,       *)
(* configuration) nor anything of another request, each request sends the  *)
(* requests it sends when served alone, and ends with the response it      *)
(* gets when served alone with the same answers from the backend.          *)
C18_Independent ==
    [][/\ UNCHANGED <<env, mode, phase, mcp, mcp_instance, closes>>
       /\ \A i \in DOMAIN tasks :
             /\ IsPrefix(tasks'[i].sent, Alone(i).out)
             /\ tasks'[i].pc = "done" =>
                   /\ tasks'[i].res = <<Alone(i)>>
                   /\ tasks'[i].sent = Alone(i).out
       /\ \A i, j \in DOMAIN tasks :
             (i # j /\ tasks'[i] # tasks[i]) => tasks'[j] = tasks[j]]_vars

C18_Witness ==
    /\ tasks # <<>>
    /\ tasks[1].pc = "awaiting" /\ Len(tasks[1].got) = 1
    /\ tasks[2].pc = "done" /\ tasks[2].got = <<StatusResp(500)>>
    /\ input[1].resps[2].kind = "ok"


-----------------------------------------------------------------------------
(* Properties of the HTTP surface towards the backends                     *)

RegisteredRoutes == ApiRoutes \cup {"/health", "/ready"}

IsHttp == last.transport = "http"

(* the outbound requests of the last request served *)
Outbound == IF IsTool \/ IsHttp THEN last.res.out ELSE <<>>

(* C21: a request to a registered HTTP route issues only GET requests to   *)
(* the backends, never a POST, PUT or DELETE and never one to the command  *)
(* endpoint; a request that is no GET is the POST of a refresh or search   *)
(* command invoked through call_tool, which the HTTP server never serves.  *)
C21_HttpReadOnly ==
    /\ IsHttp =>
         /\ last.name \in RegisteredRoutes
         /\ \A i \in DOMAIN Outbound :
               /\ Outbound[i].method = "GET"
               /\ Outbound[i].endpoint # "command"
    /\ \A i \in DOMAIN Outbound :
          (Outbound[i].method # "GET" \/ Outbound[i].endpoint = "command")
            => /\ IsTool /\ last.name \in CommandTools
               /\ Outbound[i].method = "POST"
               /\ Outbound[i].endpoint = "command"
    /\ mode = "http" => ~IsTool

C21_Witness ==
    /\ IsHttp /\ last.name = "/api/sonarr/queue"
    /\ ~last.res.raised /\ last.res.status = 200
    /\ Len(Outbound) = 1
    /\ Outbound[1].method = "GET" /\ Outbound[1].endpoint = "queue"

=============================================================================
